---- MODULE Spec2Model ----
(***************************************************************************)
(* Model of the auth-flow server: the JWT codec (services/jwt.service.ts),  *)
(* the hybrid guard (middleware/authGuard.ts), the two auth controllers     *)
(* (controllers/authController.ts, controllers/apiAuthController.ts), the   *)
(* credential service (services/auth.service.ts) and the user table.       *)
(***************************************************************************)
EXTENDS Integers, Sequences, FiniteSets, TLC

(***************************************************************************)
(* Bounds of the model.                                                    *)
(***************************************************************************)
\* the clock runs over 0..MaxTime (seconds)
MaxTime == 1
\* the clock of the codec runs over 0..MaxCodecTime
MaxCodecTime == 3
\* JWT_ACCESS_EXPIRES_IN and JWT_REFRESH_EXPIRES_IN, as bare seconds
AccessTtl == 1
RefreshTtl == 2
\* ids the users table may hand out
MaxUsers == 2
\* register requests that may be in flight together
MaxInFlight == 2
\* sessions express-session may create
MaxSessions == 1
\* the length of a duration string
MaxDurationLen == 3

(***************************************************************************)
(* Strings that the code transforms are sequences of characters.           *)
(***************************************************************************)
RECURSIVE TrimLeft(_)
TrimLeft(s) ==
  IF s # <<>> /\ Head(s) = " " THEN TrimLeft(Tail(s)) ELSE s

RECURSIVE TrimRight(_)
TrimRight(s) ==
  IF s # <<>> /\ s[Len(s)] = " " THEN TrimRight(SubSeq(s, 1, Len(s) - 1)) ELSE s

\* String.prototype.trim
Trim(s) == TrimRight(TrimLeft(s))

LowerChar(c) ==
  CASE c = "A" -> "a" [] c = "B" -> "b" [] c = "E" -> "e" [] c = "W" -> "w"
    [] c = "M" -> "m" [] c = "D" -> "d"
    [] OTHER -> c

\* String.prototype.toLowerCase
ToLowerCase(s) == [i \in 1..Len(s) |-> LowerChar(s[i])]

\* data.email.trim().toLowerCase()
NormalizeEmail(s) == ToLowerCase(Trim(s))

(***************************************************************************)
(* services/jwt.service.ts: parseDurationToSeconds.  The result is the     *)
(* number of seconds, or the Error the function throws.                    *)
(***************************************************************************)
Digits == {"0", "1", "2", "3", "4", "5", "6", "7", "8", "9"}

DigitValue(c) ==
  CASE c = "0" -> 0 [] c = "1" -> 1 [] c = "2" -> 2 [] c = "3" -> 3 [] c = "4" -> 4
    [] c = "5" -> 5 [] c = "6" -> 6 [] c = "7" -> 7 [] c = "8" -> 8 [] c = "9" -> 9

\* /^\d+$/.test(s)
AllDigits(s) == s # <<>> /\ \A i \in 1..Len(s) : s[i] \in Digits

\* Number(s) of a string of digits
RECURSIVE NumberOf(_)
NumberOf(s) ==
  IF s = <<>> THEN 0
  ELSE 10 * NumberOf(SubSeq(s, 1, Len(s) - 1)) + DigitValue(s[Len(s)])

Units == {"s", "m", "h", "d", "w", "y"}

multipliers(unit) ==
  CASE unit = "s" -> 1
    [] unit = "m" -> 60
    [] unit = "h" -> 60 * 60
    [] unit = "d" -> 60 * 60 * 24
    [] unit = "w" -> 60 * 60 * 24 * 7
    [] unit = "y" -> 60 * 60 * 24 * 365

\* trimmed.match(DURATION_REGEX)
DurationRegexMatches(s) ==
  /\ Len(s) >= 2
  /\ AllDigits(SubSeq(s, 1, Len(s) - 1))
  /\ s[Len(s)] \in Units

InvalidDuration == [ok |-> FALSE, seconds |-> 0]

parseDurationToSeconds(duration) ==
  LET trimmed == ToLowerCase(Trim(duration)) IN
  IF Len(Trim(duration)) = 0 THEN InvalidDuration
  ELSE IF AllDigits(trimmed) THEN [ok |-> TRUE, seconds |-> NumberOf(trimmed)]
  ELSE IF ~DurationRegexMatches(trimmed) THEN InvalidDuration
  ELSE [ok |-> TRUE,
        seconds |-> NumberOf(SubSeq(trimmed, 1, Len(trimmed) - 1))
                      * multipliers(trimmed[Len(trimmed)])]

(***************************************************************************)
(* Tokens.  A token is what a client can put in a header, a cookie or a    *)
(* body: nothing at all ("absent"), a string that is no JWT ("garbage"),   *)
(* or a JWT with its claims, the secret it was signed with, and the        *)
(* typeof of its userId and email claims.  The field use names the         *)
(* function that minted the token; it is no part of the JWT and no         *)
(* verification reads it.                                                  *)
(***************************************************************************)
JWT_SECRET == "server"

NoToken ==
  [form |-> "absent", userId |-> 0, uidT |-> "undefined", email |-> <<>>,
   emT |-> "undefined", iat |-> 0, exp |-> 0, secret |-> "none", use |-> "none"]

Garbage ==
  [form |-> "garbage", userId |-> 0, uidT |-> "undefined", email |-> <<>>,
   emT |-> "undefined", iat |-> 0, exp |-> 0, secret |-> "none", use |-> "none"]

\* jwt.sign(cleanPayload, secret, {expiresIn}): iat = now, exp = iat + expiresIn
JwtSign(payload, secret, expiresIn, clock, use) ==
  [form |-> "jwt", userId |-> payload.userId, uidT |-> payload.uidT,
   email |-> payload.email, emT |-> payload.emT,
   iat |-> clock, exp |-> clock + expiresIn, secret |-> secret, use |-> use]

\* the payload object the controllers hand to the codec
Payload(userId, email) ==
  [userId |-> userId, uidT |-> "string", email |-> email, emT |-> "string"]

\* { ...payload } with exp and iat deleted: the identity claims only
CleanPayload(payload) ==
  [userId |-> payload.userId, uidT |-> payload.uidT,
   email |-> payload.email, emT |-> payload.emT]

createAccessToken(payload, clock) ==
  JwtSign(CleanPayload(payload), JWT_SECRET, AccessTtl, clock, "access")

\* a refresh token that inherits the exp of the payload it is minted from
signRefreshTokenInherit(payload, clock) ==
  IF "exp" \in DOMAIN payload /\ payload.exp > 0
  THEN [JwtSign(CleanPayload(payload), JWT_SECRET, RefreshTtl, clock, "refresh")
          EXCEPT !.exp = payload.exp]
  ELSE JwtSign(CleanPayload(payload), JWT_SECRET, RefreshTtl, clock, "refresh")

signRefreshToken(payload, clock) ==
  JwtSign(CleanPayload(payload), JWT_SECRET, RefreshTtl, clock, "refresh")

\* jwt.verify: throws on a non-JWT, a bad signature, or clock >= exp
JwtVerifyThrows(token, secret, clock) ==
  \/ token.form # "jwt"
  \/ token.secret # secret
  \/ clock >= token.exp

Null == [ok |-> FALSE, threw |-> FALSE, userId |-> 0, email |-> <<>>, iat |-> 0, exp |-> 0,
         uidT |-> "undefined", emT |-> "undefined"]

Thrown == [Null EXCEPT !.threw = TRUE]

Decoded(token) ==
  [ok |-> TRUE, threw |-> FALSE, userId |-> token.userId, email |-> token.email,
   iat |-> token.iat, exp |-> token.exp, uidT |-> token.uidT, emT |-> token.emT]

verifyTokenNoCatch(token, secret, clock) ==
  IF JwtVerifyThrows(token, secret, clock) THEN Thrown
  ELSE IF token.uidT = "string" /\ token.emT = "string" THEN Decoded(token)
  ELSE Null

verifyTokenLateExpiry(token, secret, clock) ==
  IF token.form # "jwt" \/ token.secret # secret \/ clock > token.exp THEN Null
  ELSE IF token.uidT = "string" /\ token.emT = "string" THEN Decoded(token)
  ELSE Null

\* verifyToken: try { decoded = jwt.verify(...); typeof checks } catch { null }
verifyToken(token, secret, clock) ==
  IF JwtVerifyThrows(token, secret, clock) THEN Null
  ELSE IF token.uidT = "string" /\ token.emT = "string" THEN Decoded(token)
  ELSE Null

verifyAccessToken(token, clock) == verifyToken(token, JWT_SECRET, clock)

verifyRefreshToken(token, clock) == verifyToken(token, JWT_SECRET, clock)


(***************************************************************************)
(* State.                                                                  *)
(***************************************************************************)
VARIABLES
  now,       \* the clock, in seconds
  users,     \* the rows of the users table
  nextId,    \* the next id the table hands out
  sessions,  \* the session store: the set of stored [sid, user] records
  nextSid,   \* the next session id express-session generates
  jar,       \* the client's cookies
  held,      \* the tokens the client took from response bodies
  reg,       \* register requests that are between their lookup and their insert
  req,       \* the last request served
  resp,      \* the response to it
  probe,      \* the last direct call of the codec
  destroying, \* the session ids whose store.destroy has not answered yet
  ended      \* the session ids whose caller a logout has answered with success

vars ==
  <<now, users, nextId, sessions, nextSid, jar, held, reg, req, resp, probe,
    destroying, ended>>

\* undefined, as a value of a body field that may also be a string
Undefined == <<"undefined">>

NoUser == [id |-> 0, email |-> <<>>, username |-> <<>>]

\* X-Client-Type: web, WEB, mobile, a value that is neither, and no header
ClientTypeHeaders ==
  { <<"w", "e", "b">>, <<"W", "E", "B">>, <<"m", "o", "b", "i", "l", "e">>, <<"x">>, <<>> }

\* bcrypt: hash and compare
Hash(password) == <<"$2b$", password>>
Compare(password, hash) == hash = Hash(password)
\* auth.service.ts: the fixed hash a login for an unknown email is compared with
DummyHash == <<"$2b$", <<"dummy">>>>

(***************************************************************************)
(* Requests and responses.                                                 *)
(***************************************************************************)
\* the client's cookie jar: sid, refreshToken (path /), refreshToken (path /auth)
\* and refresh_token (path /)
EmptyJar == [sid |-> 0, refreshTokenRoot |-> NoToken, refreshTokenAuth |-> NoToken,
             refresh_token |-> NoToken]

\* req.cookies, as cookie-parser gives them
NoCookies == [sid |-> 0, refreshToken |-> NoToken, refresh_token |-> NoToken]

\* the Authorization header: the word before the first space, the token that
\* follows it up to the next space, and what the header holds from there on
NoAuthz == [scheme |-> "none", tok |-> NoToken, rest |-> ""]

NoReq ==
  [route |-> "none", cookies |-> NoCookies, authz |-> NoAuthz, clientType |-> <<>>,
   xhr |-> FALSE, acceptJson |-> FALSE, email |-> <<>>, password |-> <<>>,
   username |-> <<>>, bodyToken |-> NoToken, sessUser |-> NoUser]

\* errors/auth.error.ts, errors/errorHandler.ts: what a controller throws
NoError == [class |-> "none", code |-> "", message |-> "", status |-> 0]

AuthError(code, message, status) ==
  [class |-> "AuthError", code |-> code, message |-> message, status |-> status]

AppError(message, status) ==
  [class |-> "AppError", code |-> "", message |-> message, status |-> status]

\* an Error of the platform or of a library
Error(message) == [class |-> "Error", code |-> "", message |-> message, status |-> 0]

\* AuthErrors
EMAIL_TAKEN == AuthError("EMAIL_TAKEN", "Email is already registered.", 409)
INVALID_CREDENTIALS == AuthError("INVALID_CREDENTIALS", "Invalid email or password.", 401)

\* the session store fails a save; the database refuses an insert;
\* parseDurationToSeconds throws
StoreError == Error("session store failed")
InsertError == Error("insert refused by a constraint of the users table")
DurationError == Error("Invalid duration")

\* the options of res.cookie; maxAge is the set of the values given (none, or
\* one number of milliseconds).  NODE_ENV is not "production".
NoOptions == [httpOnly |-> FALSE, secure |-> FALSE, sameSite |-> "", path |-> "",
              maxAge |-> {}]

SevenDays == 1000 * 60 * 60 * 24 * 7

\* controllers/authController.ts: the object literal of login's res.cookie
loginCookieOptions ==
  [httpOnly |-> TRUE, secure |-> FALSE, sameSite |-> "lax", path |-> "/",
   maxAge |-> {SevenDays}]

\* controllers/authController.ts: refreshCookieOptions()
refreshCookieOptions ==
  [httpOnly |-> TRUE, secure |-> FALSE, sameSite |-> "lax", path |-> "/auth",
   maxAge |-> {}]

\* controllers/apiAuthController.ts: the object literal of apiLoginUser's res.cookie
apiLoginCookieOptions ==
  [httpOnly |-> TRUE, secure |-> FALSE, sameSite |-> "lax", path |-> "/",
   maxAge |-> {SevenDays}]

\* controllers/apiAuthController.ts: refreshCookieOptions
apiRefreshCookieOptions ==
  [httpOnly |-> TRUE, secure |-> FALSE, sameSite |-> "strict", path |-> "/",
   maxAge |-> {SevenDays}]

NoResp ==
  [status |-> 0, kind |-> "none", okKey |-> "", ok |-> FALSE, code |-> "", next |-> FALSE,
   reqUser |-> 0, userId |-> 0, userEmail |-> <<>>, access |-> NoToken,
   refresh |-> NoToken, setCookie |-> "none", cookieToken |-> NoToken,
   header |-> NoToken, verifies |-> 0, sessionSet |-> FALSE, sessionSaved |-> FALSE,
   usersAdded |-> 0, errorField |-> FALSE, guard |-> "none", compares |-> 0,
   presented |-> NoToken, body |-> {}, clear |-> {}, destroy |-> FALSE,
   dataKey |-> "", cookieOptions |-> NoOptions,
   \* what an error handler wrote under error, the error that was thrown in
   \* the controller, and the handler that answered it
   error |-> "", thrown |-> NoError, by |-> ""]

\* res.status(s).json({ok: false, error, code})
JsonError(status, code) ==
  [NoResp EXCEPT !.status = status, !.kind = "json", !.okKey = "ok", !.code = code,
                 !.errorField = TRUE]

\* errors/errorHandler.ts: a global handler that answers with the message of
\* whatever was thrown
globalErrorHandlerLeaky(err) ==
  IF err.class = "AppError"
  THEN [JsonError(err.status, err.code) EXCEPT !.error = err.message, !.thrown = err,
                                               !.by = "globalErrorHandler"]
  ELSE [JsonError(500, "") EXCEPT !.error = err.message, !.thrown = err,
                                  !.by = "globalErrorHandler"]

\* errors/errorHandler.ts: globalErrorHandler, the handler next(err) reaches
globalErrorHandler(err) ==
  IF err.class = "AppError"
  THEN [JsonError(err.status, err.code) EXCEPT !.error = err.message, !.thrown = err,
                                               !.by = "globalErrorHandler"]
  ELSE [JsonError(500, "") EXCEPT !.error = "Internal server error", !.thrown = err,
                                  !.by = "globalErrorHandler"]

\* errors/auth.error.ts: handleControllerError, the catch of authController
handleControllerError(err) ==
  IF err.class = "AuthError"
  THEN [JsonError(err.status, err.code) EXCEPT !.error = err.message, !.thrown = err,
                                               !.by = "handleControllerError"]
  ELSE globalErrorHandler(err)

\* express-session: the session the sid cookie names, if the store holds it
SessionUser(sid) ==
  IF \E s \in sessions : s.sid = sid
  THEN (CHOOSE s \in sessions : s.sid = sid).user
  ELSE NoUser

(***************************************************************************)
(* middleware/authGuard.ts                                                 *)
(***************************************************************************)
\* req.xhr || accept includes application/json || originalUrl starts with /api/
ExpectsJson(r) ==
  r.xhr \/ r.acceptJson \/ r.route \in {"GET /api/users", "DELETE /api/users/:email"}

Truthy(payload) == payload.ok /\ payload.userId # 0 /\ payload.email # <<>>

\* authHeader?.startsWith("Bearer ")
GuardHeaderMatches(authz) == authz.scheme = "Bearer"

\* next(), with req.user set to reqUser by the bearer path
GuardNext(reqUser, verifies) ==
  [NoResp EXCEPT !.next = TRUE, !.reqUser = reqUser, !.verifies = verifies,
                 !.guard = "next"]

\* res.status(401).json({ok: false, message})
GuardJson401(verifies) ==
  [NoResp EXCEPT !.status = 401, !.kind = "json", !.okKey = "ok",
                 !.verifies = verifies, !.guard = "401 json"]

\* res.redirect("/login")
GuardRedirect(verifies) ==
  [NoResp EXCEPT !.status = 302, !.kind = "redirect", !.verifies = verifies,
                 !.guard = "302 /login"]

authGuardBearerFirst(r) ==
  LET payload == verifyAccessToken(r.authz.tok, now) IN
  IF GuardHeaderMatches(r.authz) /\ Truthy(payload)
  THEN GuardNext(payload.userId, 1)
  ELSE LET v == IF GuardHeaderMatches(r.authz) THEN 1 ELSE 0 IN
       IF r.sessUser # NoUser THEN GuardNext(0, v)
       ELSE IF ExpectsJson(r) THEN GuardJson401(v) ELSE GuardRedirect(v)

authGuardHardFail(r) ==
  LET payload == verifyAccessToken(r.authz.tok, now) IN
  IF r.sessUser # NoUser THEN GuardNext(0, 0)
  ELSE IF GuardHeaderMatches(r.authz) /\ Truthy(payload)
  THEN GuardNext(payload.userId, 1)
  ELSE IF GuardHeaderMatches(r.authz) THEN GuardJson401(1)
  ELSE IF ExpectsJson(r) THEN GuardJson401(0) ELSE GuardRedirect(0)

\* a guard that refuses every Bearer token once a logout has ended a session
authGuardRevoking(r) ==
  LET payload == verifyAccessToken(r.authz.tok, now) IN
  IF r.sessUser # NoUser THEN GuardNext(0, 0)
  ELSE IF GuardHeaderMatches(r.authz) /\ Truthy(payload) /\ ended = {}
  THEN GuardNext(payload.userId, 1)
  ELSE LET v == IF GuardHeaderMatches(r.authz) THEN 1 ELSE 0 IN
       IF ExpectsJson(r) THEN GuardJson401(v) ELSE GuardRedirect(v)

\* the guard's outcome: next() with req.user set, or the 401 / the redirect
authGuard(r) ==
  LET payload == verifyAccessToken(r.authz.tok, now) IN
  IF r.sessUser # NoUser THEN GuardNext(0, 0)
  ELSE IF GuardHeaderMatches(r.authz) /\ Truthy(payload)
  THEN GuardNext(payload.userId, 1)
  ELSE LET v == IF GuardHeaderMatches(r.authz) THEN 1 ELSE 0 IN
       IF ExpectsJson(r) THEN GuardJson401(v) ELSE GuardRedirect(v)

(***************************************************************************)
(* models/userModel.ts and the users table (db/schema.ts)                  *)
(***************************************************************************)
NoRow == [id |-> 0, username |-> <<>>, email |-> <<>>, password |-> <<>>]

\* select ... where email = ?  (the first row, or null)
findByEmail(table, email) ==
  IF \E u \in table : u.email = email
  THEN CHOOSE u \in table : u.email = email
  ELSE NoRow

\* db.query.users.findFirst({ where: eq(users.id, userId) })
findById(table, id) ==
  IF \E u \in table : u.id = id
  THEN CHOOSE u \in table : u.id = id
  ELSE NoRow

\* the insert is refused: email unique, username unique, username not null
InsertViolates(table, row) ==
  \/ \E u \in table : u.email = row.email
  \/ \E u \in table : u.username = row.username
  \/ row.username = Undefined

\* const { password, ...safe } = user
stripPasswordKeep(user) == user

stripPassword(user) == [k \in DOMAIN user \ {"password"} |-> user[k]]

\* { id: user.id, email: user.email, username: user.username }
PickUser(user) == [id |-> user.id, email |-> user.email, username |-> user.username]

(***************************************************************************)
(* GET /auth/profile (controllers/authController.ts, profile)              *)
(***************************************************************************)
\* UserService.getByEmail: findSafeUser(UserModel.findByEmail, email)
getByEmail(email) ==
  LET user == findByEmail(users, email)
  IN IF user = NoRow THEN NoRow ELSE stripPassword(user)

\* authHeader.match(/^Bearer (.+)$/i)
ProfileHeaderMatches(authz) == authz.scheme \in {"Bearer", "bearer"}

\* match[1]: everything after "Bearer ", which is the token only when nothing
\* follows it
ProfileToken(authz) == IF authz.rest = "" THEN authz.tok ELSE Garbage

profile(r) ==
  IF r.sessUser # NoUser
  THEN [NoResp EXCEPT !.status = 200, !.kind = "json", !.okKey = "ok", !.ok = TRUE,
                      !.dataKey = "data",
                      !.userId = r.sessUser.id, !.userEmail = r.sessUser.email,
                      !.body = {r.sessUser}]
  ELSE IF ~ProfileHeaderMatches(r.authz) THEN JsonError(401, "")
  ELSE LET payload == verifyAccessToken(ProfileToken(r.authz), now)
           user == getByEmail(payload.email)
       IN IF ~payload.ok THEN [JsonError(401, "") EXCEPT !.verifies = 1]
          ELSE IF user = NoRow THEN [JsonError(404, "") EXCEPT !.verifies = 1]
          ELSE [NoResp EXCEPT !.status = 200, !.kind = "json", !.okKey = "ok",
                              !.ok = TRUE,
                              !.dataKey = "data", !.userId = user.id,
                              !.userEmail = user.email, !.verifies = 1,
                              !.body = {PickUser(user)}]

(***************************************************************************)
(* GET /api/auth/profile (controllers/apiAuthController.ts, apiGetProfile) *)
(***************************************************************************)
\* the userId the handler resolves, the verifications it makes and the
\* x-new-access-token header it sets
apiResolve(r) ==
  IF r.sessUser # NoUser
  THEN [userId |-> r.sessUser.id, verifies |-> 0, header |-> NoToken]
  ELSE IF GuardHeaderMatches(r.authz)
  THEN [userId |-> verifyAccessToken(r.authz.tok, now).userId, verifies |-> 1,
        header |-> NoToken]
  ELSE IF r.cookies.refresh_token # NoToken
  THEN LET payload == verifyRefreshToken(r.cookies.refresh_token, now) IN
       IF payload.userId # 0
       THEN [userId |-> payload.userId, verifies |-> 1,
             header |-> createAccessToken(Payload(payload.userId, payload.email), now)]
       ELSE [userId |-> 0, verifies |-> 1, header |-> NoToken]
  ELSE [userId |-> 0, verifies |-> 0, header |-> NoToken]

\* throw new AppError(message, status) in apiAuthController: the catch hands it
\* to next()
AppErrorResponse(message, status) == globalErrorHandler(AppError(message, status))

apiGetProfile(r) ==
  LET a == apiResolve(r)
      user == findById(users, a.userId)
  IN IF a.userId = 0
     THEN [AppErrorResponse("Unauthorized: Missing or invalid credentials.", 401)
             EXCEPT !.verifies = a.verifies, !.header = a.header]
     ELSE IF user = NoRow
     THEN [AppErrorResponse("User not found.", 404)
             EXCEPT !.verifies = a.verifies, !.header = a.header]
     ELSE [NoResp EXCEPT !.status = 200, !.kind = "json", !.okKey = "success",
                         !.ok = TRUE,
                         !.dataKey = "data", !.userId = user.id, !.userEmail = user.email,
                         !.verifies = a.verifies, !.header = a.header,
                         !.body = {PickUser(user)}]

(***************************************************************************)
(* services/auth.service.ts, AuthService.login                             *)
(***************************************************************************)
\* utils/crypto.ts: verifyPassword
verifyPassword(password, hash) ==
  IF password = <<>> \/ hash = <<>> THEN FALSE ELSE Compare(password, hash)

\* the user the credentials belong to, or NoRow for INVALID_CREDENTIALS
AuthServiceLogin(email, password) ==
  LET user == findByEmail(users, NormalizeEmail(email))
      hashToCheck == IF user # NoRow THEN user.password ELSE DummyHash
      isValid == verifyPassword(password, hashToCheck)
  IN IF user = NoRow \/ ~isValid THEN NoRow ELSE user

\* controllers/authController.ts: getClientType
\* a comparison that minds the case
getClientTypeCaseSensitive(header) ==
  IF header = <<"w", "e", "b">> THEN "web" ELSE "mobile"

getClientType(header) ==
  IF ToLowerCase(header) = <<"w", "e", "b">> THEN "web" ELSE "mobile"

(***************************************************************************)
(* POST /auth/login (controllers/authController.ts, login)                 *)
(* saveErr: the session store answers req.session.save with an error       *)
(***************************************************************************)
\* a login that sets the refresh-token cookie before it has checked the
\* credentials
loginCookieFirst(r, saveErr) ==
  LET user == AuthServiceLogin(r.email, r.password)
      payload == Payload(user.id, user.email)
      accessToken == createAccessToken(payload, now)
      refreshToken == signRefreshToken(payload, now)
      clientType == getClientType(r.clientType)
      done == [NoResp EXCEPT !.status = 200, !.kind = "json", !.okKey = "ok",
                             !.ok = TRUE, !.dataKey = "data", !.userId = user.id,
                             !.userEmail = user.email, !.access = accessToken,
                             !.body = {PickUser(stripPassword(user))},
                             !.compares = 1]
  IN IF r.email = <<>> \/ r.password = <<>> THEN JsonError(400, "")
     ELSE IF user = NoRow
     THEN [handleControllerError(INVALID_CREDENTIALS)
             EXCEPT !.compares = 1, !.setCookie = "refreshToken; Path=/",
                    !.cookieOptions = loginCookieOptions,
                    !.cookieToken = refreshToken]
     ELSE IF clientType = "web"
     THEN IF saveErr
          THEN [handleControllerError(StoreError) EXCEPT !.sessionSet = TRUE,
                                                         !.userId = user.id,
                                                         !.compares = 1]
          ELSE [done EXCEPT !.setCookie = "refreshToken; Path=/",
                            !.cookieOptions = loginCookieOptions,
                            !.cookieToken = refreshToken, !.sessionSet = TRUE,
                            !.sessionSaved = TRUE]
     ELSE [done EXCEPT !.refresh = refreshToken]

login(r, saveErr) ==
  LET user == AuthServiceLogin(r.email, r.password)
      payload == Payload(user.id, user.email)
      accessToken == createAccessToken(payload, now)
      refreshToken == signRefreshToken(payload, now)
      clientType == getClientType(r.clientType)
      \* AuthService.login has compared the password once, with the user's
      \* hash or with the dummy hash
      done == [NoResp EXCEPT !.status = 200, !.kind = "json", !.okKey = "ok",
                             !.ok = TRUE, !.dataKey = "data", !.userId = user.id,
                             !.userEmail = user.email, !.access = accessToken,
                             !.body = {PickUser(stripPassword(user))},
                             !.compares = 1]
  IN IF r.email = <<>> \/ r.password = <<>> THEN JsonError(400, "")
     ELSE IF user = NoRow
     THEN [handleControllerError(INVALID_CREDENTIALS) EXCEPT !.compares = 1]
     ELSE IF clientType = "web"
     THEN IF saveErr
          THEN [handleControllerError(StoreError) EXCEPT !.sessionSet = TRUE,
                                                         !.userId = user.id,
                                                         !.compares = 1]
          ELSE [done EXCEPT !.setCookie = "refreshToken; Path=/",
                            !.cookieOptions = loginCookieOptions,
                            !.cookieToken = refreshToken, !.sessionSet = TRUE,
                            !.sessionSaved = TRUE]
     ELSE [done EXCEPT !.refresh = refreshToken]

(***************************************************************************)
(* POST /api/auth/login (controllers/apiAuthController.ts, apiLoginUser)   *)
(* saveErr: the store fails the save express-session makes when the        *)
(* response ends                                                           *)
(***************************************************************************)
apiLoginUser(r, saveErr) ==
  LET user == findByEmail(users, r.email)
      payload == Payload(user.id, user.email)
  IN IF r.email = <<>> \/ r.password = <<>>
     THEN AppErrorResponse("Email and password are required.", 400)
     ELSE IF user = NoRow THEN AppErrorResponse("Invalid credentials.", 401)
     ELSE IF ~Compare(r.password, user.password)
     THEN [AppErrorResponse("Invalid credentials.", 401) EXCEPT !.compares = 1]
     ELSE [NoResp EXCEPT !.status = 200, !.kind = "json", !.okKey = "success",
                         !.ok = TRUE,
                         !.dataKey = "data", !.userId = user.id, !.userEmail = user.email,
                         !.access = createAccessToken(payload, now),
                         !.setCookie = "refresh_token; Path=/",
                         !.cookieOptions = apiLoginCookieOptions,
                         !.cookieToken = signRefreshToken(payload, now),
                         !.sessionSet = TRUE, !.sessionSaved = ~saveErr,
                         !.body = {PickUser(user)}, !.compares = 1]

(***************************************************************************)
(* POST /auth/refresh (controllers/authController.ts, refreshTokenHandler) *)
(***************************************************************************)
\* a handler that refuses a token it has accepted before
refreshTokenHandlerSingleUse(r) ==
  LET clientType == getClientType(r.clientType)
      token == IF clientType = "web" THEN r.cookies.refreshToken ELSE r.bodyToken
      payload == verifyRefreshToken(token, now)
      newAccessToken == createAccessToken(payload, now)
      newRefreshToken == signRefreshToken(payload, now)
  IN IF token = NoToken THEN JsonError(401, "")
     ELSE IF ~payload.ok \/ (token = probe.token /\ probe.uses > 0)
     THEN [JsonError(401, "") EXCEPT !.verifies = 1, !.presented = token]
     ELSE IF clientType = "web"
     THEN [NoResp EXCEPT !.status = 200, !.kind = "json", !.okKey = "ok", !.ok = TRUE,
                         !.dataKey = "data",
                         !.access = newAccessToken,
                         !.setCookie = "refreshToken; Path=/auth",
                         !.cookieOptions = refreshCookieOptions,
                         !.cookieToken = newRefreshToken, !.verifies = 1,
                         !.presented = token]
     ELSE [NoResp EXCEPT !.status = 200, !.kind = "json", !.okKey = "ok", !.ok = TRUE,
                         !.dataKey = "data",
                         !.access = newAccessToken, !.refresh = newRefreshToken,
                         !.verifies = 1, !.presented = token]

refreshTokenHandler(r) ==
  LET clientType == getClientType(r.clientType)
      token == IF clientType = "web" THEN r.cookies.refreshToken ELSE r.bodyToken
      payload == verifyRefreshToken(token, now)
      newAccessToken == createAccessToken(payload, now)
      newRefreshToken == signRefreshToken(payload, now)
  IN IF token = NoToken THEN JsonError(401, "")
     ELSE IF ~payload.ok
     THEN [JsonError(401, "") EXCEPT !.verifies = 1, !.presented = token]
     ELSE IF clientType = "web"
     THEN [NoResp EXCEPT !.status = 200, !.kind = "json", !.okKey = "ok", !.ok = TRUE,
                         !.dataKey = "data",
                         !.access = newAccessToken,
                         !.setCookie = "refreshToken; Path=/auth",
                         !.cookieOptions = refreshCookieOptions,
                         !.cookieToken = newRefreshToken, !.verifies = 1,
                         !.presented = token]
     ELSE [NoResp EXCEPT !.status = 200, !.kind = "json", !.okKey = "ok", !.ok = TRUE,
                         !.dataKey = "data",
                         !.access = newAccessToken, !.refresh = newRefreshToken,
                         !.verifies = 1, !.presented = token]

(***************************************************************************)
(* POST /api/auth/refresh (controllers/apiAuthController.ts,               *)
(* apiRefreshToken)                                                        *)
(***************************************************************************)
\* a handler that refuses the token of a user who is no longer stored
apiRefreshTokenChecksUser(r) ==
  LET token == IF r.cookies.refresh_token # NoToken THEN r.cookies.refresh_token
               ELSE r.bodyToken
      payload == verifyRefreshToken(token, now)
  IN IF token = NoToken THEN AppErrorResponse("Missing refresh token.", 401)
     ELSE IF ~payload.ok \/ findById(users, payload.userId) = NoRow
     THEN [AppErrorResponse("Invalid or expired refresh token.", 403)
             EXCEPT !.verifies = 1, !.presented = token]
     ELSE [NoResp EXCEPT !.status = 200, !.kind = "json", !.okKey = "success",
                         !.ok = TRUE,
                         !.dataKey = "data", !.access = createAccessToken(payload, now),
                         !.refresh = signRefreshToken(payload, now),
                         !.setCookie = "refresh_token; Path=/",
                         !.cookieOptions = apiRefreshCookieOptions,
                         !.cookieToken = signRefreshToken(payload, now),
                         !.verifies = 1, !.presented = token]

apiRefreshToken(r) ==
  LET token == IF r.cookies.refresh_token # NoToken THEN r.cookies.refresh_token
               ELSE r.bodyToken
      payload == verifyRefreshToken(token, now)
  IN IF token = NoToken THEN AppErrorResponse("Missing refresh token.", 401)
     ELSE IF ~payload.ok
     THEN [AppErrorResponse("Invalid or expired refresh token.", 403)
             EXCEPT !.verifies = 1, !.presented = token]
     ELSE [NoResp EXCEPT !.status = 200, !.kind = "json", !.okKey = "success",
                         !.ok = TRUE,
                         !.dataKey = "data", !.access = createAccessToken(payload, now),
                         !.refresh = signRefreshToken(payload, now),
                         !.setCookie = "refresh_token; Path=/",
                         !.cookieOptions = apiRefreshCookieOptions,
                         !.cookieToken = signRefreshToken(payload, now),
                         !.verifies = 1, !.presented = token]

(***************************************************************************)
(* POST /auth/register (controllers/authController.ts, register, and       *)
(* AuthService.register).  The handler awaits the lookup and then the      *)
(* insert: other requests run between the two.                             *)
(***************************************************************************)
Falsy(s) == s = <<>> \/ s = Undefined

\* up to the lookup: the response that ends the request, or NoResp to go on
registerCheck(r) ==
  IF Falsy(r.username) \/ Falsy(r.email) \/ Falsy(r.password) THEN JsonError(400, "")
  ELSE IF findByEmail(users, NormalizeEmail(r.email)) # NoRow
  THEN handleControllerError(EMAIL_TAKEN)
  ELSE NoResp

registerRow(r) ==
  [id |-> nextId, username |-> Trim(r.username), email |-> NormalizeEmail(r.email),
   password |-> Hash(r.password)]

\* UserModel.addUser and the answer
registerInsert(r) ==
  IF InsertViolates(users, registerRow(r)) THEN handleControllerError(InsertError)
  ELSE [NoResp EXCEPT !.status = 201, !.kind = "json", !.okKey = "ok", !.ok = TRUE,
                      !.dataKey = "data",
                      !.userId = nextId, !.userEmail = registerRow(r).email,
                      !.usersAdded = 1,
                      !.body = {PickUser(stripPassword(registerRow(r)))}]

(***************************************************************************)
(* POST /api/auth/register (controllers/apiAuthController.ts,              *)
(* apiRegisterUser)                                                        *)
(***************************************************************************)
apiRegisterCheck(r) ==
  IF Falsy(r.email) \/ Falsy(r.password)
  THEN AppErrorResponse("Email and password are required.", 400)
  ELSE IF findByEmail(users, r.email) # NoRow
  THEN AppErrorResponse("User already exists.", 409)
  ELSE NoResp

apiRegisterRow(r) ==
  [id |-> nextId, username |-> r.username, email |-> r.email,
   password |-> Hash(r.password)]

apiRegisterInsert(r) ==
  LET payload == Payload(nextId, r.email) IN
  IF InsertViolates(users, apiRegisterRow(r)) THEN globalErrorHandler(InsertError)
  ELSE [NoResp EXCEPT !.status = 201, !.kind = "json", !.okKey = "success",
                      !.ok = TRUE,
                      !.dataKey = "data", !.userId = nextId, !.userEmail = r.email,
                      !.access = createAccessToken(payload, now),
                      !.setCookie = "refresh_token; Path=/",
                      !.cookieOptions = apiRefreshCookieOptions,
                      !.cookieToken = signRefreshToken(payload, now),
                      !.usersAdded = 1, !.body = {PickUser(apiRegisterRow(r))}]

(***************************************************************************)
(* POST /auth/logout (controllers/authController.ts, logout)               *)
(* req.session.destroy is called and not awaited; the two cookies are      *)
(* cleared by name and path; the answer does not depend on the request     *)
(***************************************************************************)
logout(r) ==
  [NoResp EXCEPT !.status = 200, !.kind = "json", !.okKey = "ok", !.ok = TRUE,
                 !.destroy = TRUE,
                 !.clear = {"sid; Path=/", "refresh_token; Path=/"}]

(***************************************************************************)
(* POST /api/auth/logout (controllers/apiAuthController.ts, apiLogout)     *)
(***************************************************************************)
apiLogout(r) ==
  [NoResp EXCEPT !.status = 200, !.kind = "json", !.okKey = "success", !.ok = TRUE,
                 !.clear = {"refresh_token; Path=/"}]

(***************************************************************************)
(* /api/users (controllers/userController.ts), behind authGuard            *)
(* user: the req.user the guard has set, 0 when it has set none            *)
(***************************************************************************)
UserControllerError(status) ==
  [NoResp EXCEPT !.status = status, !.kind = "json", !.okKey = "success",
                 !.errorField = TRUE]

\* UserService.getAll: every row, without its password
getAll == { stripPassword(u) : u \in users }

getAllUsers(r, user) ==
  IF user = 0 THEN UserControllerError(401)
  ELSE [NoResp EXCEPT !.status = 200, !.kind = "json", !.okKey = "success",
                      !.ok = TRUE, !.dataKey = "data", !.body = getAll]

\* UserModel.deleteByEmail: the rows the delete leaves
deleteByEmail(table, email) == { u \in table : u.email # email }

deleteUserByEmail(r, user) ==
  IF user = 0 THEN UserControllerError(401)
  ELSE IF r.email = <<>> THEN UserControllerError(400)
  ELSE IF deleteByEmail(users, r.email) = users THEN UserControllerError(404)
  ELSE [NoResp EXCEPT !.status = 200, !.kind = "json", !.okKey = "success",
                      !.ok = TRUE]

(***************************************************************************)
(* The client and the middleware in front of the handlers.                 *)
(***************************************************************************)
\* cookie-parser on the Cookie header the jar gives for a path: of two
\* cookies named refreshToken the one with the longer path comes first
CookiesFor(underAuth) ==
  [sid |-> jar.sid,
   refreshToken |-> IF underAuth /\ jar.refreshTokenAuth # NoToken
                    THEN jar.refreshTokenAuth ELSE jar.refreshTokenRoot,
   refresh_token |-> jar.refresh_token]

\* a signed token of another issuer
Forged ==
  [form |-> "jwt", userId |-> 1, uidT |-> "string", email |-> <<"a">>,
   emT |-> "string", iat |-> 0, exp |-> MaxTime + 1, secret |-> "attacker",
   use |-> "none"]

\* the tokens a client can put in a header or a body
Presentable == ({held.access, held.refresh} \ {NoToken}) \cup {Garbage, Forged}

AuthzChoices ==
  {NoAuthz} \cup {[scheme |-> s, tok |-> t, rest |-> ""] :
                    s \in {"Bearer", "bearer"}, t \in Presentable}

\* a header with more after the token: "Bearer <token> x"
AuthzWithRest == { [a EXCEPT !.rest = " x"] : a \in AuthzChoices \ {NoAuthz} }

UnderAuth(route) ==
  route \in {"POST /auth/register", "POST /auth/login", "POST /auth/refresh",
             "POST /auth/logout", "GET /auth/profile"}

Request(route, authz, ct, xhr, accept, username, email, password, bodyToken) ==
  LET cookies == CookiesFor(UnderAuth(route))
  IN [route |-> route, cookies |-> cookies, authz |-> authz, clientType |-> ct,
      xhr |-> xhr, acceptJson |-> accept, email |-> email, password |-> password,
      username |-> username, bodyToken |-> bodyToken,
      sessUser |-> SessionUser(cookies.sid)]

\* the session id of the request: the stored session its cookie names, or a new one
SidOf(r) ==
  IF \E s \in sessions : s.sid = r.cookies.sid THEN r.cookies.sid ELSE nextSid

\* store.set(sid, {user})
StoreSet(sid, user) == {s \in sessions : s.sid # sid} \cup {[sid |-> sid, user |-> user]}

\* the client keeps the cookies and the tokens the response gives it
JarAfter(out, sid) ==
  [sid |-> IF out.sessionSet THEN sid
           ELSE IF "sid; Path=/" \in out.clear THEN 0 ELSE jar.sid,
   refreshTokenRoot |-> IF out.setCookie = "refreshToken; Path=/"
                        THEN out.cookieToken ELSE jar.refreshTokenRoot,
   refreshTokenAuth |-> IF out.setCookie = "refreshToken; Path=/auth"
                        THEN out.cookieToken ELSE jar.refreshTokenAuth,
   refresh_token |-> IF out.setCookie = "refresh_token; Path=/"
                     THEN out.cookieToken
                     ELSE IF "refresh_token; Path=/" \in out.clear THEN NoToken
                     ELSE jar.refresh_token]

\* and the tokens of the last response that carried any
HeldAfter(out) ==
  IF out.access # NoToken THEN [access |-> out.access, refresh |-> out.refresh]
  ELSE IF out.header # NoToken THEN [access |-> out.header, refresh |-> held.refresh]
  ELSE held

\* the server is between requests
Idle == req = NoReq

\* the handler answers request r with out
Answer(r, out) ==
  /\ req' = r
  /\ resp' = out
  /\ jar' = JarAfter(out, SidOf(r))
  /\ held' = HeldAfter(out)

(***************************************************************************)
(* Actions.                                                                *)
(***************************************************************************)
Tick ==
  /\ Idle
  /\ now < MaxTime
  /\ now' = now + 1
  /\ UNCHANGED <<users, nextId, sessions, nextSid, jar, held, reg, req, resp, probe, destroying, ended>>

\* the client has the response; the server takes the next request
Deliver ==
  /\ ~Idle
  /\ req' = NoReq
  /\ resp' = NoResp
  /\ UNCHANGED <<now, users, nextId, sessions, nextSid, jar, held, reg, probe, destroying, ended>>

\* req.session.user = {id, email, username}
SessionOf(out) ==
  LET user == findById(users, out.userId)
  IN [id |-> user.id, email |-> user.email, username |-> user.username]

LoginStep(emails, passwords) ==
  \E ct \in ClientTypeHeaders, e \in emails, p \in passwords, saveErr \in BOOLEAN :
    LET r == Request("POST /auth/login", NoAuthz, ct, FALSE, FALSE, <<>>, e, p, NoToken)
        out == login(r, saveErr)
        sid == SidOf(r)
    IN /\ Idle
       /\ saveErr => out.status = 500
       /\ out.sessionSet => sid <= MaxSessions
       /\ Answer(r, out)
       /\ sessions' = IF out.sessionSaved THEN StoreSet(sid, SessionOf(out)) ELSE sessions
       /\ nextSid' = IF out.sessionSet /\ sid = nextSid THEN nextSid + 1 ELSE nextSid
       /\ ended' = IF out.sessionSaved THEN ended \ {sid} ELSE ended
       /\ UNCHANGED <<now, users, nextId, reg, destroying>>

Login(emails, passwords) == LoginStep(emails, passwords) /\ UNCHANGED probe

ApiLoginStep(emails, passwords) ==
  \E ct \in ClientTypeHeaders, e \in emails, p \in passwords, saveErr \in BOOLEAN :
    LET r == Request("POST /api/auth/login", NoAuthz, ct, FALSE, FALSE, <<>>, e, p,
                     NoToken)
        out == apiLoginUser(r, saveErr)
        sid == SidOf(r)
    IN /\ Idle
       /\ saveErr => out.sessionSet
       /\ out.sessionSet => sid <= MaxSessions
       /\ Answer(r, out)
       /\ sessions' = IF out.sessionSaved THEN StoreSet(sid, SessionOf(out)) ELSE sessions
       /\ nextSid' = IF out.sessionSet /\ sid = nextSid THEN nextSid + 1 ELSE nextSid
       /\ ended' = IF out.sessionSaved THEN ended \ {sid} ELSE ended
       /\ UNCHANGED <<now, users, nextId, reg, destroying>>

ApiLogin(emails, passwords) == ApiLoginStep(emails, passwords) /\ UNCHANGED probe

\* where a client puts a refresh token: in the body next to the cookies of its
\* jar, in the body of a request without cookies, or as the only cookie
Places == {"jar and body", "body", "cookie"}

\* the request as the place makes it
Placed(r, place, t) ==
  CASE place = "jar and body" -> r
    [] place = "body" -> [r EXCEPT !.cookies = NoCookies, !.sessUser = NoUser]
    [] place = "cookie" ->
         [r EXCEPT !.cookies = [NoCookies EXCEPT !.refreshToken = t, !.refresh_token = t],
                   !.sessUser = NoUser, !.bodyToken = NoToken]

\* the X-Client-Type of a refresh: web or none
RefreshClientTypes == { <<"w", "e", "b">>, <<>> }

RefreshStep(tokens, places) ==
  \E ct \in RefreshClientTypes, t \in tokens, place \in places :
    LET r == Placed(Request("POST /auth/refresh", NoAuthz, ct, FALSE, FALSE,
                            <<>>, <<>>, <<>>, t), place, t)
    IN /\ Idle
       /\ Answer(r, refreshTokenHandler(r))
       /\ UNCHANGED <<now, users, nextId, sessions, nextSid, reg, destroying, ended>>

Refresh ==
  RefreshStep(Presentable \cup {NoToken}, {"jar and body"}) /\ UNCHANGED probe

ApiRefreshStep(tokens, places) ==
  \E t \in tokens, place \in places :
    LET r == Placed(Request("POST /api/auth/refresh", NoAuthz, <<>>, FALSE, FALSE,
                            <<>>, <<>>, <<>>, t), place, t)
    IN /\ Idle
       /\ Answer(r, apiRefreshToken(r))
       /\ UNCHANGED <<now, users, nextId, sessions, nextSid, reg, destroying, ended>>

ApiRefresh ==
  ApiRefreshStep(Presentable \cup {NoToken}, {"jar and body"}) /\ UNCHANGED probe

\* GET /auth/profile: authGuard, then profile when the guard calls next()
GuardedProfile(r) ==
  LET g == authGuard(r)
      h == profile(r)
  IN IF g.next
     THEN [h EXCEPT !.next = TRUE, !.reqUser = g.reqUser, !.guard = g.guard,
                    !.verifies = g.verifies + h.verifies]
     ELSE g

GetAuthProfile ==
  \E authz \in AuthzChoices, xhr \in BOOLEAN, accept \in BOOLEAN :
    LET r == Request("GET /auth/profile", authz, <<>>, xhr, accept, <<>>, <<>>, <<>>,
                     NoToken)
    IN /\ Idle
       /\ Answer(r, GuardedProfile(r))
       /\ UNCHANGED <<now, users, nextId, sessions, nextSid, reg, probe, destroying, ended>>

\* GET /auth/profile with a header that goes on after the token
GetAuthProfileLong ==
  \E authz \in AuthzWithRest, xhr \in BOOLEAN, accept \in BOOLEAN :
    LET r == Request("GET /auth/profile", authz, <<>>, xhr, accept, <<>>, <<>>, <<>>,
                     NoToken)
    IN /\ Idle
       /\ Answer(r, GuardedProfile(r))
       /\ UNCHANGED <<now, users, nextId, sessions, nextSid, reg, probe, destroying, ended>>

GetApiProfile ==
  \E authz \in AuthzChoices :
    LET r == Request("GET /api/auth/profile", authz, <<>>, FALSE, FALSE,
                     <<>>, <<>>, <<>>, NoToken)
    IN /\ Idle
       /\ Answer(r, apiGetProfile(r))
       /\ UNCHANGED <<now, users, nextId, sessions, nextSid, reg, probe, destroying, ended>>

\* the stored session the request's cookie names, if any
Stored(r) == { s.sid : s \in sessions } \cap { r.cookies.sid }

Logout ==
  LET r == Request("POST /auth/logout", NoAuthz, <<>>, FALSE, FALSE, <<>>, <<>>, <<>>,
                   NoToken)
      out == logout(r)
  IN /\ Idle
     /\ Answer(r, out)
     /\ destroying' = IF out.destroy THEN destroying \cup Stored(r) ELSE destroying
     /\ ended' = ended \cup Stored(r)
     /\ UNCHANGED <<now, users, nextId, sessions, nextSid, reg, probe>>

ApiLogout ==
  LET r == Request("POST /api/auth/logout", NoAuthz, <<>>, FALSE, FALSE, <<>>, <<>>,
                   <<>>, NoToken)
      out == apiLogout(r)
  IN /\ Idle
     /\ Answer(r, out)
     /\ destroying' = IF out.destroy THEN destroying \cup Stored(r) ELSE destroying
     /\ ended' = ended \cup Stored(r)
     /\ UNCHANGED <<now, users, nextId, sessions, nextSid, reg, probe>>

\* the store answers a destroy: the record is deleted, or the store failed
\* and the record stays (logout passes a callback that ignores the error)
DestroyDone ==
  \E sid \in destroying, err \in BOOLEAN :
    /\ Idle
    /\ destroying' = destroying \ {sid}
    /\ sessions' = IF err THEN sessions ELSE { s \in sessions : s.sid # sid }
    /\ UNCHANGED <<now, users, nextId, nextSid, jar, held, reg, req, resp, probe, ended>>

\* GET /api/users: authGuard, then getAllUsers when the guard calls next()
GuardedUsers(r) ==
  LET g == authGuard(r)
      h == getAllUsers(r, g.reqUser)
  IN IF g.next
     THEN [h EXCEPT !.next = TRUE, !.reqUser = g.reqUser, !.guard = g.guard,
                    !.verifies = g.verifies]
     ELSE g

\* DELETE /api/users/:email: authGuard, then deleteUserByEmail
GuardedDelete(r) ==
  LET g == authGuard(r)
      h == deleteUserByEmail(r, g.reqUser)
  IN IF g.next
     THEN [h EXCEPT !.next = TRUE, !.reqUser = g.reqUser, !.guard = g.guard,
                    !.verifies = g.verifies]
     ELSE g

\* a client that keeps no cookies sends none
Bare(r) == [r EXCEPT !.cookies = NoCookies, !.sessUser = NoUser]

GetUsers ==
  \E authz \in AuthzChoices, accept \in BOOLEAN, bare \in BOOLEAN :
    LET q == Request("GET /api/users", authz, <<>>, FALSE, accept, <<>>, <<>>, <<>>,
                     NoToken)
        r == IF bare THEN Bare(q) ELSE q
    IN /\ Idle
       /\ Answer(r, GuardedUsers(r))
       /\ UNCHANGED <<now, users, nextId, sessions, nextSid, reg, probe, destroying, ended>>

\* a delete that runs whatever the guard and the handler have answered
DeleteUserUnguarded(emails) ==
  \E authz \in AuthzChoices, e \in emails :
    LET r == Bare(Request("DELETE /api/users/:email", authz, <<>>, FALSE, TRUE,
                          <<>>, e, <<>>, NoToken))
        out == GuardedDelete(r)
    IN /\ Idle
       /\ Answer(r, out)
       /\ users' = deleteByEmail(users, e)
       /\ UNCHANGED <<now, nextId, sessions, nextSid, reg, probe, destroying, ended>>

DeleteUser(emails) ==
  \E authz \in AuthzChoices, e \in emails :
    LET r == Bare(Request("DELETE /api/users/:email", authz, <<>>, FALSE, TRUE,
                          <<>>, e, <<>>, NoToken))
        out == GuardedDelete(r)
    IN /\ Idle
       /\ Answer(r, out)
       /\ users' = IF out.status = 200 THEN deleteByEmail(users, e) ELSE users
       /\ UNCHANGED <<now, nextId, sessions, nextSid, reg, probe, destroying, ended>>

\* a request that carries the cookie of a session and nothing else
Carrying(r, sid) ==
  [r EXCEPT !.cookies = [NoCookies EXCEPT !.sid = sid], !.sessUser = SessionUser(sid)]

ProtectedRoutes == {"GET /auth/profile", "GET /api/auth/profile", "GET /api/users"}

Protected(r) ==
  CASE r.route = "GET /auth/profile" -> GuardedProfile(r)
    [] r.route = "GET /api/auth/profile" -> apiGetProfile(r)
    [] r.route = "GET /api/users" -> GuardedUsers(r)

\* somebody presents the cookie of a session that a logout has ended
ReplaySession ==
  \E sid \in ended, route \in ProtectedRoutes :
    LET r == Carrying(Request(route, NoAuthz, <<>>, FALSE, TRUE, <<>>, <<>>, <<>>,
                              NoToken), sid)
    IN /\ Idle
       /\ Answer(r, Protected(r))
       /\ UNCHANGED <<now, users, nextId, sessions, nextSid, reg, probe, destroying, ended>>

(***************************************************************************)
(* The running server with two registered users.                           *)
(***************************************************************************)
SeedUsers ==
  { [id |-> 1, username |-> <<"x">>, email |-> <<"a">>, password |-> Hash(<<"p">>)],
    [id |-> 2, username |-> <<"y">>, email |-> <<"b">>, password |-> Hash(<<"p">>)] }

\* the credentials the clients of the running server log in with
SeedEmails == { <<"a">>, <<"b">> }
SeedPasswords == { <<"p">>, <<"q">> }
\* and an e-mail nobody registered
LoginEmails == SeedEmails \cup { <<"c">> }

\* process.env: whether JWT_SECRET is set, and the two lifetime strings
NoEnv ==
  [JWT_SECRET |-> FALSE, JWT_ACCESS_EXPIRES_IN |-> <<>>, JWT_REFRESH_EXPIRES_IN |-> <<>>]

NoProbe ==
  [origin |-> "none", userId |-> 0, email |-> <<>>, token |-> NoToken,
   called |-> "none", at |-> 0, out |-> Null, uses |-> 0, text |-> <<>>,
   env |-> NoEnv]

NoneInFlight == [i \in 1..MaxInFlight |-> NoReq]

Init ==
  /\ now = 0
  /\ users = SeedUsers
  /\ nextId = 3
  /\ sessions = {}
  /\ nextSid = 1
  /\ jar = EmptyJar
  /\ held = [access |-> NoToken, refresh |-> NoToken]
  /\ reg = NoneInFlight
  /\ req = NoReq
  /\ resp = NoResp
  /\ probe = NoProbe
  /\ destroying = {}
  /\ ended = {}

Next ==
  \/ Tick
  \/ Deliver
  \/ Login(LoginEmails, SeedPasswords)
  \/ ApiLogin(LoginEmails, SeedPasswords)
  \/ Refresh
  \/ ApiRefresh
  \/ GetAuthProfile
  \/ GetApiProfile

Spec == Init /\ [][Next]_vars

(***************************************************************************)
(* Registration on an empty users table, requests in flight together.      *)
(***************************************************************************)
RegEmails == { <<"a">>, <<" ", "A">>, <<"b">>, <<>> }
RegUsernames == { <<"x">>, <<"y">>, Undefined }
RegPasswords == { <<"p">>, <<>> }

RegisterBegin(slot) ==
  \E u \in RegUsernames, e \in RegEmails, p \in RegPasswords :
    LET r == Request("POST /auth/register", NoAuthz, <<>>, FALSE, FALSE, u, e, p, NoToken)
        out == registerCheck(r)
    IN /\ Idle
       /\ reg[slot] = NoReq
       /\ IF out = NoResp
          THEN /\ reg' = [reg EXCEPT ![slot] = r]
               /\ UNCHANGED <<req, resp, jar, held>>
          ELSE /\ Answer(r, out)
               /\ UNCHANGED reg
       /\ UNCHANGED <<now, users, nextId, sessions, nextSid, probe, destroying, ended>>

RegisterEnd(slot) ==
  LET r == reg[slot]
      out == registerInsert(r)
  IN /\ Idle
     /\ r.route = "POST /auth/register"
     /\ nextId <= MaxUsers
     /\ Answer(r, out)
     /\ reg' = [reg EXCEPT ![slot] = NoReq]
     /\ users' = IF out.status = 201 THEN users \cup {registerRow(r)} ELSE users
     /\ nextId' = IF out.status = 201 THEN nextId + 1 ELSE nextId
     /\ UNCHANGED <<now, sessions, nextSid, probe, destroying, ended>>

ApiRegisterBegin(slot) ==
  \E u \in RegUsernames, e \in RegEmails, p \in RegPasswords :
    LET r == Request("POST /api/auth/register", NoAuthz, <<>>, FALSE, FALSE, u, e, p,
                     NoToken)
        out == apiRegisterCheck(r)
    IN /\ Idle
       /\ reg[slot] = NoReq
       /\ IF out = NoResp
          THEN /\ reg' = [reg EXCEPT ![slot] = r]
               /\ UNCHANGED <<req, resp, jar, held>>
          ELSE /\ Answer(r, out)
               /\ UNCHANGED reg
       /\ UNCHANGED <<now, users, nextId, sessions, nextSid, probe, destroying, ended>>

ApiRegisterEnd(slot) ==
  LET r == reg[slot]
      out == apiRegisterInsert(r)
  IN /\ Idle
     /\ r.route = "POST /api/auth/register"
     /\ nextId <= MaxUsers
     /\ Answer(r, out)
     /\ reg' = [reg EXCEPT ![slot] = NoReq]
     /\ users' = IF out.status = 201 THEN users \cup {apiRegisterRow(r)} ELSE users
     /\ nextId' = IF out.status = 201 THEN nextId + 1 ELSE nextId
     /\ UNCHANGED <<now, sessions, nextSid, probe, destroying, ended>>

InitRegister ==
  /\ now = 0
  /\ users = {}
  /\ nextId = 1
  /\ sessions = {}
  /\ nextSid = 1
  /\ jar = EmptyJar
  /\ held = [access |-> NoToken, refresh |-> NoToken]
  /\ reg = NoneInFlight
  /\ req = NoReq
  /\ resp = NoResp
  /\ probe = NoProbe
  /\ destroying = {}
  /\ ended = {}

NextRegister ==
  \/ Deliver
  \/ \E slot \in 1..MaxInFlight : RegisterBegin(slot)
  \/ \E slot \in 1..MaxInFlight : RegisterEnd(slot)
  \/ \E slot \in 1..MaxInFlight : ApiRegisterBegin(slot)
  \/ \E slot \in 1..MaxInFlight : ApiRegisterEnd(slot)

SpecRegister == InitRegister /\ [][NextRegister]_vars

(***************************************************************************)
(* From registration to login and profile: users register, one request at  *)
(* a time, and log in with a variant of their e-mail or with a field       *)
(* missing.                                                                *)
(***************************************************************************)
SignupEmails == { <<"a">>, <<" ", "A">>, <<>> }
SignupPasswords == { <<"p">>, <<>> }

NextSignup ==
  \/ Deliver
  \/ RegisterBegin(1)
  \/ RegisterEnd(1)
  \/ ApiRegisterBegin(1)
  \/ ApiRegisterEnd(1)
  \/ Login(SignupEmails, SignupPasswords)
  \/ ApiLogin(SignupEmails, SignupPasswords)
  \/ GetAuthProfile
  \/ GetApiProfile

SpecSignup == InitRegister /\ [][NextSignup]_vars

(***************************************************************************)
(* The codec on its own: tokens it mints and tokens from elsewhere,        *)
(* verified as the clock runs.                                             *)
(***************************************************************************)
JsTypes == {"string", "number", "undefined"}

\* JWTs of any claims, expiry and signer, and strings that are no JWT
CodecInputs ==
  {Garbage, NoToken} \cup
  { [form |-> "jwt", userId |-> 1, uidT |-> tu, email |-> <<"a">>, emT |-> te,
     iat |-> 0, exp |-> x, secret |-> s, use |-> "none"] :
    tu \in JsTypes, te \in JsTypes, x \in 0..MaxCodecTime,
    s \in {JWT_SECRET, "attacker"} }

CodecMintAccess ==
  \E u \in 1..MaxUsers, e \in SeedEmails :
    /\ probe' = [NoProbe EXCEPT !.origin = "createAccessToken", !.userId = u, !.email = e,
                                !.token = createAccessToken(Payload(u, e), now),
                                !.at = now]
    /\ UNCHANGED <<now, users, nextId, sessions, nextSid, jar, held, reg, req, resp, destroying, ended>>

CodecMintRefresh ==
  \E u \in 1..MaxUsers, e \in SeedEmails :
    /\ probe' = [NoProbe EXCEPT !.origin = "signRefreshToken", !.userId = u, !.email = e,
                                !.token = signRefreshToken(Payload(u, e), now),
                                !.at = now]
    /\ UNCHANGED <<now, users, nextId, sessions, nextSid, jar, held, reg, req, resp, destroying, ended>>

CodecInput ==
  \E t \in CodecInputs :
    /\ probe' = [NoProbe EXCEPT !.origin = "input", !.token = t, !.at = now]
    /\ UNCHANGED <<now, users, nextId, sessions, nextSid, jar, held, reg, req, resp, destroying, ended>>

CodecVerifyAccess ==
  /\ probe.origin # "none"
  /\ probe' = [probe EXCEPT !.called = "verifyAccessToken", !.at = now,
                            !.out = verifyAccessToken(probe.token, now)]
  /\ UNCHANGED <<now, users, nextId, sessions, nextSid, jar, held, reg, req, resp, destroying, ended>>

CodecVerifyRefresh ==
  /\ probe.origin # "none"
  /\ probe' = [probe EXCEPT !.called = "verifyRefreshToken", !.at = now,
                            !.out = verifyRefreshToken(probe.token, now)]
  /\ UNCHANGED <<now, users, nextId, sessions, nextSid, jar, held, reg, req, resp, destroying, ended>>

CodecTick ==
  /\ now < MaxCodecTime
  /\ now' = now + 1
  /\ UNCHANGED <<users, nextId, sessions, nextSid, jar, held, reg, req, resp, probe, destroying, ended>>

NextCodec ==
  \/ CodecMintAccess
  \/ CodecMintRefresh
  \/ CodecInput
  \/ CodecVerifyAccess
  \/ CodecVerifyRefresh
  \/ CodecTick

SpecCodec == Init /\ [][NextCodec]_vars

(***************************************************************************)
(* The duration parser on its own, on every short string of these          *)
(* characters.                                                             *)
(***************************************************************************)
DurationChars == {"0", "1", "5", "s", "m", "h", "d", "w", "y", "M", " ", "x"}

DurationStrings == UNION { [1..n -> DurationChars] : n \in 0..MaxDurationLen }

InitDuration ==
  /\ now = 0
  /\ users = SeedUsers
  /\ nextId = 3
  /\ sessions = {}
  /\ nextSid = 1
  /\ jar = EmptyJar
  /\ held = [access |-> NoToken, refresh |-> NoToken]
  /\ reg = NoneInFlight
  /\ req = NoReq
  /\ resp = NoResp
  /\ probe \in { [NoProbe EXCEPT !.origin = "duration", !.text = s] :
                    s \in DurationStrings }
  /\ destroying = {}
  /\ ended = {}

ParseDuration ==
  /\ probe.origin = "duration"
  /\ probe' = [probe EXCEPT !.origin = "parsed",
                            !.out = parseDurationToSeconds(probe.text)]
  /\ UNCHANGED <<now, users, nextId, sessions, nextSid, jar, held, reg, req, resp,
                 destroying, ended>>

NextDuration == ParseDuration

SpecDuration == InitDuration /\ [][NextDuration]_vars

(***************************************************************************)
(* The requests whose handlers throw: registrations into an empty table,   *)
(* logins and refreshes.                                                   *)
(***************************************************************************)
NextErrors ==
  \/ Deliver
  \/ RegisterBegin(1)
  \/ RegisterEnd(1)
  \/ ApiRegisterBegin(1)
  \/ ApiRegisterEnd(1)
  \/ Login(SignupEmails, SignupPasswords)

SpecErrors == InitRegister /\ [][NextErrors]_vars

(***************************************************************************)
(* One user who logs in, logs out through either endpoint and goes on      *)
(* presenting tokens to the guarded routes while the clock runs.           *)
(***************************************************************************)
RevokeEmails == { <<"a">> }
RevokePasswords == { <<"p">> }

NextRevoke ==
  \/ Tick
  \/ Deliver
  \/ Login(RevokeEmails, RevokePasswords)
  \/ ApiLogin(RevokeEmails, RevokePasswords)
  \/ Logout
  \/ ApiLogout
  \/ DestroyDone
  \/ GetAuthProfile
  \/ GetUsers

SpecRevoke == Init /\ [][NextRevoke]_vars

(***************************************************************************)
(* A browser that logs in and logs out through POST /auth/logout, the      *)
(* store's answer to the destroy, and requests with the cookie of the      *)
(* session the logout has ended.                                           *)
(***************************************************************************)
NextLogoutRace ==
  \/ Deliver
  \/ Login(RevokeEmails, SeedPasswords)
  \/ Logout
  \/ DestroyDone
  \/ ReplaySession

SpecLogoutRace == Init /\ [][NextLogoutRace]_vars

(***************************************************************************)
(* A user who registers into the empty table, logs in and is deleted, a    *)
(* registration that takes the e-mail again, and profile requests with     *)
(* the tokens of the first login.                                          *)
(***************************************************************************)
NextReuse ==
  \/ Deliver
  \/ Login(RevokeEmails, RevokePasswords)
  \/ DeleteUser(RevokeEmails)
  \/ RegisterBegin(1)
  \/ RegisterEnd(1)
  \/ GetAuthProfile
  \/ GetApiProfile

SpecReuse == InitRegister /\ [][NextReuse]_vars

(***************************************************************************)
(* A user who logs in and asks for the profile with Authorization headers  *)
(* of both shapes while the clock runs.                                    *)
(***************************************************************************)
NextHeader ==
  \/ Tick
  \/ Deliver
  \/ Login(RevokeEmails, RevokePasswords)
  \/ GetAuthProfile
  \/ GetAuthProfileLong

SpecHeader == Init /\ [][NextHeader]_vars

(***************************************************************************)
(* Requests against a table that starts empty: registrations through both  *)
(* endpoints, refreshes, user list requests and deletions, with the tokens *)
(* the registrations hand out.                                             *)
(***************************************************************************)
NextStores ==
  \/ Deliver
  \/ RegisterBegin(1)
  \/ RegisterEnd(1)
  \/ ApiRegisterBegin(1)
  \/ ApiRegisterEnd(1)
  \/ Refresh
  \/ GetUsers
  \/ DeleteUser(RevokeEmails)

SpecStores == InitRegister /\ [][NextStores]_vars

(***************************************************************************)
(* The process with its environment: config/env.ts parses process.env when *)
(* the process starts, services/jwt.service.ts reads the secret and the    *)
(* two lifetime strings when it is loaded, and createAccessToken and       *)
(* signRefreshToken parse the lifetime strings each time they are called.  *)
(* The lifetimes written as digit strings are the ones the tokens of this  *)
(* model have.                                                             *)
(***************************************************************************)
Decimal(n) == << CHOOSE c \in Digits : DigitValue(c) = n >>

Envs ==
  { [JWT_SECRET |-> sec, JWT_ACCESS_EXPIRES_IN |-> a, JWT_REFRESH_EXPIRES_IN |-> f] :
      sec \in BOOLEAN,
      a \in {Decimal(AccessTtl), <<"x">>, <<>>},
      f \in {Decimal(RefreshTtl), <<"1", "q">>} }

\* envSchema.parse(process.env): z.string() for both lifetimes, JWT_SECRET optional
envSchemaParses(env) == TRUE

\* the module of jwt.service.ts throws when JWT_SECRET is missing
jwtServiceLoads(env) == env.JWT_SECRET

\* createAccessToken or signRefreshToken throws in parseDurationToSeconds
TokenCreationThrows(env) ==
  \/ ~parseDurationToSeconds(env.JWT_ACCESS_EXPIRES_IN).ok
  \/ ~parseDurationToSeconds(env.JWT_REFRESH_EXPIRES_IN).ok

\* the answer of a handler under env: nominal is its answer when the tokens
\* are created and the store works, out its answer when the tokens are created
Configured(nominal, out, env) ==
  IF nominal.access # NoToken /\ TokenCreationThrows(env)
  THEN [globalErrorHandler(DurationError) EXCEPT !.compares = nominal.compares,
                                                 !.verifies = nominal.verifies,
                                                 !.presented = nominal.presented]
  ELSE out

ConfigEmails == { <<"a">> }

InitConfig ==
  /\ now = 0
  /\ users = SeedUsers
  /\ nextId = 3
  /\ sessions = {}
  /\ nextSid = 1
  /\ jar = EmptyJar
  /\ held = [access |-> NoToken, refresh |-> NoToken]
  /\ reg = NoneInFlight
  /\ req = NoReq
  /\ resp = NoResp
  /\ probe \in { [NoProbe EXCEPT !.origin = "env", !.env = env] : env \in Envs }
  /\ destroying = {}
  /\ ended = {}

\* the process starts: it serves, or it has exited
Start ==
  /\ probe.origin = "env"
  /\ probe' = [probe EXCEPT !.origin =
                 IF envSchemaParses(probe.env) /\ jwtServiceLoads(probe.env)
                 THEN "serving" ELSE "exited"]
  /\ UNCHANGED <<now, users, nextId, sessions, nextSid, jar, held, reg, req, resp,
                 destroying, ended>>

\* the operator changes the environment and starts the process again; the
\* database, the session store and the clients keep what they have
Restart ==
  /\ Idle
  /\ probe.origin \in {"serving", "exited"}
  /\ \E env \in Envs : probe' = [probe EXCEPT !.origin = "env", !.env = env]
  /\ UNCHANGED <<now, users, nextId, sessions, nextSid, jar, held, reg, req, resp,
                 destroying, ended>>

Serving == probe.origin = "serving"

ConfiguredLogin ==
  \E ct \in ClientTypeHeaders, e \in ConfigEmails, p \in SeedPasswords,
     saveErr \in BOOLEAN :
    LET r == Request("POST /auth/login", NoAuthz, ct, FALSE, FALSE, <<>>, e, p, NoToken)
        out == Configured(login(r, FALSE), login(r, saveErr), probe.env)
        sid == SidOf(r)
    IN /\ Serving
       /\ Idle
       /\ saveErr => out.thrown = StoreError
       /\ out.sessionSet => sid <= MaxSessions
       /\ Answer(r, out)
       /\ sessions' = IF out.sessionSaved THEN StoreSet(sid, SessionOf(out)) ELSE sessions
       /\ nextSid' = IF out.sessionSet /\ sid = nextSid THEN nextSid + 1 ELSE nextSid
       /\ ended' = IF out.sessionSaved THEN ended \ {sid} ELSE ended
       /\ UNCHANGED <<now, users, nextId, reg, destroying, probe>>

ConfiguredApiLogin ==
  \E e \in ConfigEmails, p \in SeedPasswords, saveErr \in BOOLEAN :
    LET r == Request("POST /api/auth/login", NoAuthz, <<>>, FALSE, FALSE, <<>>, e, p,
                     NoToken)
        out == Configured(apiLoginUser(r, FALSE), apiLoginUser(r, saveErr), probe.env)
        sid == SidOf(r)
    IN /\ Serving
       /\ Idle
       /\ saveErr => out.sessionSet
       /\ out.sessionSet => sid <= MaxSessions
       /\ Answer(r, out)
       /\ sessions' = IF out.sessionSaved THEN StoreSet(sid, SessionOf(out)) ELSE sessions
       /\ nextSid' = IF out.sessionSet /\ sid = nextSid THEN nextSid + 1 ELSE nextSid
       /\ ended' = IF out.sessionSaved THEN ended \ {sid} ELSE ended
       /\ UNCHANGED <<now, users, nextId, reg, destroying, probe>>

ConfiguredRefresh ==
  \E ct \in RefreshClientTypes, t \in Presentable \cup {NoToken} :
    LET r == Request("POST /auth/refresh", NoAuthz, ct, FALSE, FALSE,
                     <<>>, <<>>, <<>>, t)
        out == refreshTokenHandler(r)
    IN /\ Serving
       /\ Idle
       /\ Answer(r, Configured(out, out, probe.env))
       /\ UNCHANGED <<now, users, nextId, sessions, nextSid, reg, destroying, ended,
                      probe>>

ConfiguredApiRefresh ==
  \E t \in Presentable \cup {NoToken} :
    LET r == Request("POST /api/auth/refresh", NoAuthz, <<>>, FALSE, FALSE,
                     <<>>, <<>>, <<>>, t)
        out == apiRefreshToken(r)
    IN /\ Serving
       /\ Idle
       /\ Answer(r, Configured(out, out, probe.env))
       /\ UNCHANGED <<now, users, nextId, sessions, nextSid, reg, destroying, ended,
                      probe>>

NextConfig ==
  \/ Start
  \/ Restart
  \/ Deliver
  \/ ConfiguredLogin
  \/ ConfiguredApiLogin
  \/ ConfiguredRefresh
  \/ ConfiguredApiRefresh

SpecConfig == InitConfig /\ [][NextConfig]_vars

(***************************************************************************)
(* A client that keeps the refresh token its login gave it and presents    *)
(* it again and again, whatever the refreshes answer.                      *)
(***************************************************************************)
\* the refreshes counted with one kept token
MaxUses == 2

\* the client logs in as one registered user, with the right password or not
KeptEmails == { <<"a">> }

\* the refresh token of a login response: in the body, or in the cookie
KeptToken(out) == IF out.refresh # NoToken THEN out.refresh ELSE out.cookieToken

Keep(out) ==
  IF out.status = 200
  THEN [NoProbe EXCEPT !.origin = "login", !.userId = out.userId,
                       !.email = out.userEmail, !.token = KeptToken(out), !.at = now]
  ELSE probe

Used(out) ==
  [probe EXCEPT !.called = "refresh",
                !.uses = IF out.status = 200 /\ out.presented = probe.token
                         THEN @ + 1 ELSE @]

LoginKeep ==
  /\ LoginStep(KeptEmails, SeedPasswords)
  /\ probe' = Keep(resp')

ApiLoginKeep ==
  /\ ApiLoginStep(KeptEmails, SeedPasswords)
  /\ probe' = Keep(resp')

RefreshKept ==
  /\ probe.origin = "login"
  /\ probe.uses < MaxUses
  /\ RefreshStep({probe.token}, {"body", "cookie"})
  /\ probe' = Used(resp')

ApiRefreshKept ==
  /\ probe.origin = "login"
  /\ probe.uses < MaxUses
  /\ ApiRefreshStep({probe.token}, {"body", "cookie"})
  /\ probe' = Used(resp')

NextRotation ==
  \/ Tick
  \/ Deliver
  \/ LoginKeep
  \/ ApiLoginKeep
  \/ RefreshKept
  \/ ApiRefreshKept

SpecRotation == Init /\ [][NextRotation]_vars

(***************************************************************************)
(* The same server with logout, the user list and the deletion of users:   *)
(* one browser, the API clients that send no cookies, and whoever has the  *)
(* cookie of an ended session.  The clock stands still here: no token     *)
(* expires between these requests.                                         *)
(***************************************************************************)
NextAccount ==
  \/ Deliver
  \/ Login(KeptEmails, SeedPasswords)
  \/ ApiLogin(KeptEmails, SeedPasswords)
  \/ Refresh
  \/ ApiRefresh
  \/ Logout
  \/ ApiLogout
  \/ DestroyDone
  \/ ReplaySession
  \/ GetAuthProfile
  \/ GetApiProfile
  \/ GetUsers
  \/ DeleteUser(SeedEmails)

SpecAccount == Init /\ [][NextAccount]_vars

(***************************************************************************)
(* Vocabulary of the properties.                                           *)
(***************************************************************************)
ProfileRoutes == {"GET /auth/profile", "GET /api/auth/profile"}
LoginRoutes == {"POST /auth/login", "POST /api/auth/login"}
RefreshRoutes == {"POST /auth/refresh", "POST /api/auth/refresh"}
RegisterRoutes == {"POST /auth/register", "POST /api/auth/register"}

\* a server-signed token that has not expired
Unexpired(tok) == tok.form = "jwt" /\ tok.secret = JWT_SECRET /\ now < tok.exp

\* an Authorization: Bearer header with a server-signed, unexpired token
\* (which of the two kinds of token it is, is the subject of C2)
CarriesValidToken(r) ==
  /\ r.authz.scheme \in {"Bearer", "bearer"}
  /\ Unexpired(r.authz.tok)

\* the request was treated as authenticated
Authenticated(out) == out.guard = "next" \/ out.status = 200

\* X-Client-Type says web / says mobile, is absent or is unrecognized
HeaderWeb(r) == r.clientType = <<"w", "e", "b">>
HeaderMobile(r) == r.clientType \in {<<"m", "o", "b", "i", "l", "e">>, <<"x">>, <<>>}

\* the stored users whose e-mail normalizes to that of the request
SameNormalizedEmail(r) ==
  {u \in users : NormalizeEmail(u.email) = NormalizeEmail(r.email)}

(***************************************************************************)
(* C1: a profile request with no session user and no valid, unexpired      *)
(* access token in an Authorization: Bearer header is not treated as       *)
(* authenticated; a valid refresh-token cookie alone authenticates         *)
(* nothing.                                                                *)
(***************************************************************************)
C1_ProfileNeedsSessionOrAccessToken ==
  (/\ req.route \in ProfileRoutes
   /\ req.sessUser = NoUser
   /\ ~CarriesValidToken(req)) => ~Authenticated(resp)

(***************************************************************************)
(* C2: access and refresh tokens do not stand in for each other: a refresh *)
(* token in the Bearer header does not pass authGuard or profile, and an   *)
(* access token given to a refresh endpoint mints no new tokens.           *)
(***************************************************************************)
C2_TokenKindsNotInterchangeable ==
  /\ (/\ req.route = "GET /auth/profile"
      /\ req.sessUser = NoUser
      /\ req.authz.tok.use = "refresh") => ~Authenticated(resp)
  /\ (/\ req.route \in RefreshRoutes
      /\ req.bodyToken.use = "access"
      /\ req.cookies.refreshToken = NoToken
      /\ req.cookies.refresh_token = NoToken)
     => resp.status # 200 /\ resp.access = NoToken /\ resp.refresh = NoToken

(***************************************************************************)
(* C3: an access token the codec minted verifies, giving back the identity *)
(* it was minted for, at every time before its exp, and is rejected (null) *)
(* at exp and at every later time.                                         *)
(***************************************************************************)
C3_AccessTokenValidBeforeExp ==
  (probe.origin = "createAccessToken" /\ probe.called = "verifyAccessToken") =>
    IF probe.at < probe.token.exp
    THEN /\ probe.out.ok
         /\ probe.out.userId = probe.userId
         /\ probe.out.email = probe.email
    ELSE probe.out = Null

\* the token was verified at the very time it expires
C3_Witness ==
  /\ probe.origin = "createAccessToken"
  /\ probe.called = "verifyAccessToken"
  /\ probe.at = probe.token.exp
  /\ probe.out = Null

(***************************************************************************)
(* C4: verifying a token never throws: an expired token, a string that is  *)
(* no JWT, a token signed with another secret and a token whose userId or  *)
(* email claim is not a string all give null.                              *)
(***************************************************************************)
C4_VerifyNeverThrows ==
  probe.called # "none" =>
    /\ ~probe.out.threw
    /\ (\/ probe.token.form # "jwt"
        \/ probe.token.secret # JWT_SECRET
        \/ probe.at >= probe.token.exp
        \/ probe.token.uidT # "string"
        \/ probe.token.emT # "string") => probe.out = Null

\* a well-signed, unexpired token with a numeric userId claim was verified
C4_Witness ==
  /\ probe.called # "none"
  /\ probe.token.form = "jwt"
  /\ probe.token.secret = JWT_SECRET
  /\ probe.at < probe.token.exp
  /\ probe.token.uidT = "number"
  /\ probe.out = Null

(***************************************************************************)
(* C5: when the request has a session user, authGuard, profile and         *)
(* apiGetProfile authenticate it as that user and verify no token,         *)
(* whatever the Authorization header holds.                                *)
(***************************************************************************)
C5_SessionWins ==
  (req.route \in ProfileRoutes /\ req.sessUser # NoUser) =>
    /\ resp.status = 200
    /\ resp.userId = req.sessUser.id
    /\ resp.userEmail = req.sessUser.email
    /\ resp.verifies = 0
    /\ req.route = "GET /auth/profile" => resp.guard = "next"

\* a session user's request came with a valid bearer token of another user
C5_Witness ==
  /\ req.route \in ProfileRoutes
  /\ req.sessUser # NoUser
  /\ req.authz.scheme = "Bearer"
  /\ verifyAccessToken(req.authz.tok, now).ok
  /\ req.authz.tok.userId # req.sessUser.id
  /\ resp.userId = req.sessUser.id

(***************************************************************************)
(* C6: what authGuard answers depends only on whether the request is       *)
(* authenticated and whether it wants JSON: authenticated, it calls next() *)
(* and answers nothing; otherwise 401 JSON with ok false when JSON is      *)
(* wanted, and a redirect to the login page when not.  A bad or expired    *)
(* bearer token with no session is classified the same way.                *)
(***************************************************************************)
C6_GuardOutcome ==
  req.route = "GET /auth/profile" =>
    LET authed == \/ req.sessUser # NoUser
                  \/ /\ req.authz.scheme = "Bearer"
                     /\ verifyAccessToken(req.authz.tok, now).ok
        wantsJson == req.xhr \/ req.acceptJson
    IN IF authed THEN resp.guard = "next"
       ELSE IF wantsJson
       THEN /\ resp.guard = "401 json"
            /\ resp.status = 401 /\ resp.kind = "json"
            /\ resp.okKey = "ok" /\ ~resp.ok
       ELSE /\ resp.guard = "302 /login"
            /\ resp.status = 302 /\ resp.kind = "redirect"

\* a browser request with an expired bearer token and no session was redirected
C6_Witness ==
  /\ req.route = "GET /auth/profile"
  /\ req.sessUser = NoUser
  /\ req.authz.scheme = "Bearer"
  /\ req.authz.tok.secret = JWT_SECRET
  /\ now >= req.authz.tok.exp
  /\ ~req.xhr /\ ~req.acceptJson
  /\ resp.guard = "302 /login"

(***************************************************************************)
(* C7: an e-mail is registered once: a registration on either route whose  *)
(* e-mail, trimmed and lowercased, is that of a stored user adds no user.  *)
(***************************************************************************)
C7_EmailUniqueNormalized ==
  (req.route \in RegisterRoutes /\ resp.status = 201) =>
    Cardinality(SameNormalizedEmail(req)) = 1

(***************************************************************************)
(* C8: of concurrent registrations of one normalized e-mail one gets 201   *)
(* and every other gets 409 with code EMAIL_TAKEN.                         *)
(***************************************************************************)
C8_ConcurrentRegisterConflict ==
  (/\ req.route = "POST /auth/register"
   /\ ~Falsy(req.username) /\ ~Falsy(req.email) /\ ~Falsy(req.password)
   /\ \E u \in users : u.email = NormalizeEmail(req.email) /\ u.id # resp.userId)
  => resp.status = 409 /\ resp.code = "EMAIL_TAKEN"

(***************************************************************************)
(* C9: a successful login answers a web client with the access token in    *)
(* the body and the refresh token in a cookie only, and a mobile client    *)
(* (header mobile, absent or unrecognized) with both tokens in the body.   *)
(***************************************************************************)
C9_LoginBodyByClientType ==
  (req.route \in LoginRoutes /\ resp.status = 200) =>
    /\ HeaderWeb(req) => /\ resp.access # NoToken
                         /\ resp.refresh = NoToken
                         /\ resp.cookieToken # NoToken
    /\ HeaderMobile(req) => resp.access # NoToken /\ resp.refresh # NoToken

(***************************************************************************)
(* C10: a successful login attaches the user to a session exactly when the *)
(* client is web; for a mobile client the session store is not written.    *)
(***************************************************************************)
C10_SessionOnlyForWeb ==
  (req.route \in LoginRoutes /\ resp.status = 200) =>
    /\ HeaderWeb(req) => resp.sessionSet
    /\ HeaderMobile(req) => ~resp.sessionSet /\ ~resp.sessionSaved

(***************************************************************************)
(* C11: a login that attaches a user to the session answers with success   *)
(* only after the session store has acknowledged the write; when the store *)
(* fails the save, no success response is sent.                            *)
(***************************************************************************)
C11_SessionSavedBeforeSuccess ==
  (req.route \in LoginRoutes /\ resp.sessionSet /\ resp.status = 200) =>
    resp.sessionSaved

(***************************************************************************)
(* C13: a refresh request that supplies no refresh token is answered 401,  *)
(* one whose token is invalid or expired 403; neither mints a token nor    *)
(* sets a cookie.                                                          *)
(***************************************************************************)
C13_RefreshFailureStatus ==
  req.route \in RefreshRoutes =>
    /\ (/\ req.bodyToken = NoToken
        /\ req.cookies.refreshToken = NoToken
        /\ req.cookies.refresh_token = NoToken)
       => /\ resp.status = 401
          /\ resp.access = NoToken /\ resp.refresh = NoToken
          /\ resp.setCookie = "none"
    /\ (resp.presented # NoToken /\ ~Unexpired(resp.presented))
       => /\ resp.status = 403
          /\ resp.access = NoToken /\ resp.refresh = NoToken
          /\ resp.setCookie = "none"

(***************************************************************************)
(* C12: refresh does not enforce single use: every refresh that presents   *)
(* the unexpired refresh token R of a login succeeds and returns a new     *)
(* access token and a new refresh token, the second time as the first.     *)
(***************************************************************************)
C12_RefreshNotSingleUse ==
  (/\ req.route \in RefreshRoutes
   /\ probe.origin = "login"
   /\ resp.presented = probe.token
   /\ Unexpired(probe.token))
  => /\ resp.status = 200
     /\ Unexpired(resp.access)
     /\ Unexpired(KeptToken(resp))

\* the second refresh with R succeeded, at a time after the login
C12_Witness ==
  /\ req.route \in RefreshRoutes
  /\ probe.origin = "login"
  /\ resp.presented = probe.token
  /\ probe.uses = 2
  /\ probe.at < now
  /\ resp.status = 200
  /\ KeptToken(resp) # probe.token

\* a login attempt with an e-mail and a password that name no user together:
\* the e-mail of nobody, or somebody's e-mail with another password
FailedAttempt(r) ==
  /\ r.route \in LoginRoutes
  /\ r.email # <<>> /\ r.password # <<>>
  /\ ~\E u \in users : u.email = r.email /\ Compare(r.password, u.password)

(***************************************************************************)
(* C19: a login with a wrong password and a login with an e-mail of no     *)
(* user get the same answer on both login endpoints: HTTP 401 with the     *)
(* body {ok: false, error, code: "INVALID_CREDENTIALS"}.                   *)
(***************************************************************************)
C19_InvalidCredentialsShape ==
  FailedAttempt(req) =>
    /\ resp.status = 401
    /\ resp.okKey = "ok" /\ ~resp.ok
    /\ resp.errorField
    /\ resp.code = "INVALID_CREDENTIALS"

(***************************************************************************)
(* C20: every login attempt with a non-empty e-mail and password compares  *)
(* the password with a hash once, the user's or the dummy one, whether or  *)
(* not a user has the e-mail.                                              *)
(***************************************************************************)
C20_AlwaysCompares ==
  (/\ req.route \in LoginRoutes
   /\ req.email # <<>> /\ req.password # <<>>)
  => resp.compares = 1

LogoutRoutes == {"POST /auth/logout", "POST /api/auth/logout"}

\* the answer to the browser's next logout through the same endpoint
LogoutAgain ==
  LET r == Request(req.route, NoAuthz, <<>>, FALSE, FALSE, <<>>, <<>>, <<>>, NoToken)
  IN IF req.route = "POST /auth/logout" THEN logout(r) ELSE apiLogout(r)

\* a second logout right after the first leaves the cookies as they are and
\* asks the store for nothing that the first has not asked for
LogoutRepeatable ==
  LET r == Request(req.route, NoAuthz, <<>>, FALSE, FALSE, <<>>, <<>>, <<>>, NoToken)
  IN /\ LogoutAgain.status = 200
     /\ JarAfter(LogoutAgain, SidOf(r)) = jar
     /\ LogoutAgain.destroy => Stored(r) \subseteq destroying
     /\ Stored(r) \subseteq ended

(***************************************************************************)
(* C14: logout is idempotent: it answers success (HTTP 200, ok: true)      *)
(* with or without a session and cookies, and a logout that follows a      *)
(* logout answers success again and leaves the state as it is.             *)
(***************************************************************************)
C14_LogoutIdempotent ==
  req.route \in LogoutRoutes =>
    /\ resp.status = 200
    /\ resp.okKey = "ok" /\ resp.ok
    /\ LogoutRepeatable

\* the browser's cookie-based refresh through either endpoint, as it would
\* be answered now
CookieRefreshes ==
  { refreshTokenHandler(Request("POST /auth/refresh", NoAuthz, <<"w", "e", "b">>,
                                FALSE, FALSE, <<>>, <<>>, <<>>, NoToken)),
    apiRefreshToken(Request("POST /api/auth/refresh", NoAuthz, <<>>, FALSE, FALSE,
                            <<>>, <<>>, <<>>, NoToken)) }

(***************************************************************************)
(* C15: after a logout the browser's cookie jar holds no refresh-token     *)
(* cookie, whichever of login and refresh has set one, and a cookie-based  *)
(* refresh that follows does not succeed.                                  *)
(***************************************************************************)
C15_LogoutClearsRefreshCookie ==
  (req.route \in LogoutRoutes /\ resp.status = 200) =>
    /\ jar.refreshTokenRoot = NoToken
    /\ jar.refreshTokenAuth = NoToken
    /\ jar.refresh_token = NoToken
    /\ \A out \in CookieRefreshes : out.status # 200

\* the request carries the cookie of a session and no other credential
OnlySessionCookie(r) ==
  /\ r.cookies.sid # 0
  /\ r.cookies.refreshToken = NoToken /\ r.cookies.refresh_token = NoToken
  /\ r.authz = NoAuthz

(***************************************************************************)
(* C16: both logout endpoints destroy the caller's session: once a logout  *)
(* has answered the caller of a session and the store has answered the     *)
(* destroy, a request that carries only the cookie of that session is      *)
(* unauthenticated on every protected route.                               *)
(***************************************************************************)
C16_LogoutDestroysSession ==
  (/\ req.route \in ProtectedRoutes
   /\ OnlySessionCookie(req)
   /\ req.cookies.sid \in ended
   /\ req.cookies.sid \notin destroying)
  => ~Authenticated(resp)

\* the user id the request's session or its Bearer access token resolves to
Identity(r) ==
  IF r.sessUser # NoUser THEN r.sessUser.id
  ELSE IF r.authz.scheme = "Bearer" /\ verifyAccessToken(r.authz.tok, now).ok
  THEN verifyAccessToken(r.authz.tok, now).userId
  ELSE 0

(***************************************************************************)
(* C17: a profile request whose identity resolves, by a session or by a    *)
(* valid Bearer access token, to a user whose record is no longer in the   *)
(* user store is answered 404, on both profile endpoints.                  *)
(***************************************************************************)
C17_ProfileOfDeletedUser ==
  (/\ req.route \in ProfileRoutes
   /\ Identity(req) # 0
   /\ findById(users, Identity(req)) = NoRow)
  => resp.status = 404

(***************************************************************************)
(* C18: no response body of any endpoint carries a user's password or      *)
(* password hash.                                                          *)
(***************************************************************************)
C18_NoPasswordInBody ==
  \A u \in resp.body : "password" \notin DOMAIN u

\* the user list, after a user was deleted, still with a user in it
C18_Witness ==
  /\ req.route = "GET /api/users"
  /\ resp.status = 200
  /\ resp.body # {}
  /\ users # SeedUsers
  /\ \A u \in users : \E b \in resp.body : b.id = u.id /\ b.email = u.email

\* the header spells web, in whatever case
SaysWeb(header) ==
  /\ Len(header) = 3
  /\ header[1] \in {"w", "W"} /\ header[2] \in {"e", "E"} /\ header[3] \in {"b", "B"}

\* the response treats its client as a web client: the refresh token goes
\* into a cookie and stays out of the body
AnsweredAsWeb(out) == out.setCookie # "none" /\ out.refresh = NoToken

(***************************************************************************)
(* C30: the client type is web exactly when X-Client-Type equals "web"     *)
(* without regard to case; without the header and with any other value it  *)
(* is mobile.  Seen where the client type decides: the successful answers  *)
(* of POST /auth/login and POST /auth/refresh.                             *)
(***************************************************************************)
C30_ClientTypeFromHeader ==
  (req.route \in {"POST /auth/login", "POST /auth/refresh"} /\ resp.status = 200) =>
    (AnsweredAsWeb(resp) <=> SaysWeb(req.clientType))

\* an upper-case WEB login is answered as web
C30_Witness ==
  /\ req.route = "POST /auth/login"
  /\ resp.status = 200
  /\ req.clientType = <<"W", "E", "B">>
  /\ AnsweredAsWeb(resp)

(***************************************************************************)
(* C24: every JSON response, of an endpoint or of authGuard, has the       *)
(* envelope {ok, data?, error?, code?}: a boolean field ok, the payload of *)
(* a success under data, the message of a failure under error.             *)
(***************************************************************************)
C24_ResponseEnvelope ==
  resp.kind = "json" =>
    /\ resp.okKey = "ok"
    /\ resp.ok => resp.dataKey \in {"", "data"}
    /\ ~resp.ok => resp.errorField

(***************************************************************************)
(* C22: a register request with a username, an e-mail and a password,      *)
(* whose normalized e-mail no other user has, is answered 201, also when   *)
(* another user has its username: 409 and 400 are the only failures.       *)
(***************************************************************************)
C22_RegisterOnlyFailsTakenOrInvalid ==
  (/\ req.route = "POST /auth/register"
   /\ ~Falsy(req.username) /\ ~Falsy(req.email) /\ ~Falsy(req.password)
   /\ ~\E u \in users : u.email = NormalizeEmail(req.email) /\ u.id # resp.userId)
  => resp.status = 201

\* the users whose e-mail is a variant of the request's and whose password
\* is the request's
Registered(r) ==
  { u \in users : /\ NormalizeEmail(u.email) = NormalizeEmail(r.email)
                  /\ Compare(r.password, u.password) }

\* the session store has failed the save of this login
StoreFailed(out) == out.sessionSet /\ ~out.sessionSaved

\* a request whose only credential is a Bearer access token of a stored user
BearerOfUser(r) ==
  /\ r.sessUser = NoUser
  /\ r.authz.scheme = "Bearer"
  /\ Unexpired(r.authz.tok) /\ r.authz.tok.use = "access"
  /\ findById(users, r.authz.tok.userId) # NoRow

(***************************************************************************)
(* C21: the e-mail is trimmed and lowercased on every register and login   *)
(* path: whoever registered with e-mail E and password P logs in, through  *)
(* either login endpoint, with P and any variant of E in case and          *)
(* surrounding whitespace, and the access token of the login gives 200 on  *)
(* profile with the user's id and e-mail.                                  *)
(***************************************************************************)
C21_LoginWithEmailVariant ==
  /\ (/\ req.route \in LoginRoutes
      /\ req.email # <<>>
      /\ Registered(req) # {}
      /\ ~StoreFailed(resp))
     => /\ resp.status = 200
        /\ \E u \in Registered(req) : resp.userId = u.id
  /\ (req.route \in ProfileRoutes /\ BearerOfUser(req))
     => /\ resp.status = 200
        /\ resp.userId = req.authz.tok.userId
        /\ resp.userEmail = findById(users, resp.userId).email

\* a register or login request without one of its fields
FieldMissing(r) ==
  \/ /\ r.route \in RegisterRoutes
     /\ Falsy(r.username) \/ Falsy(r.email) \/ Falsy(r.password)
  \/ /\ r.route \in LoginRoutes
     /\ Falsy(r.email) \/ Falsy(r.password)

(***************************************************************************)
(* C23: a register request without username, e-mail or password and a      *)
(* login request without e-mail or password are answered 400 and change    *)
(* nothing: no user, no token, no session, no cookie.                      *)
(***************************************************************************)
C23_MissingFieldIs400 ==
  FieldMissing(req) =>
    /\ resp.status = 400
    /\ resp.usersAdded = 0
    /\ resp.access = NoToken /\ resp.refresh = NoToken
    /\ resp.setCookie = "none"
    /\ ~resp.sessionSet

\* the strings of ^\d+(s|m|h|d|w|y)$ and the bare integers
WellFormedDuration(s) ==
  \/ AllDigits(s)
  \/ /\ Len(s) >= 2
     /\ AllDigits(SubSeq(s, 1, Len(s) - 1))
     /\ s[Len(s)] \in {"s", "m", "h", "d", "w", "y"}

\* the seconds such a string stands for
SecondsOf(s) ==
  IF AllDigits(s) THEN NumberOf(s)
  ELSE NumberOf(SubSeq(s, 1, Len(s) - 1)) *
         (CASE s[Len(s)] = "s" -> 1 [] s[Len(s)] = "m" -> 60
            [] s[Len(s)] = "h" -> 3600 [] s[Len(s)] = "d" -> 86400
            [] s[Len(s)] = "w" -> 604800 [] s[Len(s)] = "y" -> 31536000)

(***************************************************************************)
(* C26: parseDurationToSeconds accepts exactly the strings of              *)
(* ^\d+(s|m|h|d|w|y)$, with the multipliers 1, 60, 3600, 86400, 604800 and *)
(* 31536000, and the bare integers; every other string, such as "15M",     *)
(* " 15m " and the empty string, fails.                                    *)
(***************************************************************************)
C26_DurationGrammar ==
  probe.origin = "parsed" =>
    IF WellFormedDuration(probe.text)
    THEN probe.out.ok /\ probe.out.seconds = SecondsOf(probe.text)
    ELSE ~probe.out.ok

(***************************************************************************)
(* C27: a malformed JWT_ACCESS_EXPIRES_IN or JWT_REFRESH_EXPIRES_IN stops  *)
(* the process when it starts: no login and no refresh request of a        *)
(* serving process fails because a lifetime string cannot be parsed.       *)
(***************************************************************************)
C27_MalformedLifetimeIsFatalAtStart ==
  req.route \in LoginRoutes \cup RefreshRoutes => resp.thrown # DurationError

\* the prefix the routes of the request's controller are mounted under
AuthPrefix(route) == IF UnderAuth(route) THEN "/auth" ELSE "/api/auth"

(***************************************************************************)
(* C29: every refresh-token cookie set by a login or by a refresh, in      *)
(* either controller, is httpOnly, has the auth route prefix as its path   *)
(* and a max-age of 7 days (so a login and a refresh set it with the same  *)
(* path and max-age).                                                      *)
(***************************************************************************)
C29_RefreshCookieAttributes ==
  req.route \in LoginRoutes \cup RefreshRoutes /\ resp.setCookie # "none" =>
    /\ resp.cookieOptions.httpOnly
    /\ resp.cookieOptions.path = AuthPrefix(req.route)
    /\ resp.cookieOptions.maxAge = {SevenDays}

\* the routes behind authGuard
GuardedRoutes == {"GET /auth/profile", "GET /api/users", "DELETE /api/users/:email"}

\* the request presents, as a Bearer token, an access token the server issued
\* and that has not expired
PresentsLiveAccessToken(r) ==
  /\ r.authz # NoAuthz
  /\ r.authz.scheme = "Bearer"
  /\ Unexpired(r.authz.tok)
  /\ r.authz.tok.use = "access"

(***************************************************************************)
(* C28: access tokens are not revocable.  A Bearer request with an access  *)
(* token issued at login passes authGuard as the token's user at every     *)
(* time before the token expires, whether or not the user has logged out   *)
(* through either logout endpoint in between.                              *)
(***************************************************************************)
C28_AccessTokenSurvivesLogout ==
  req.route \in GuardedRoutes /\ PresentsLiveAccessToken(req) =>
    /\ resp.next
    /\ req.sessUser = NoUser => resp.guard = "next" /\ resp.reqUser = req.authz.tok.userId

\* after a logout has ended the user's session, a request without a session
\* passed the guard on its access token
C28_Witness ==
  /\ req.route \in GuardedRoutes
  /\ PresentsLiveAccessToken(req)
  /\ req.sessUser = NoUser
  /\ ended # {}
  /\ destroying = {}
  /\ resp.next
  /\ resp.reqUser = req.authz.tok.userId

\* AuthError and AppError are the classified domain errors
Classified(err) == err.class \in {"AuthError", "AppError"}

UserRoutes == {"GET /api/users", "DELETE /api/users/:email"}

(***************************************************************************)
(* C31: every request authGuard forwards to getAllUsers or to              *)
(* deleteUserByEmail has req.user set, on the session path and on the      *)
(* bearer path, so these handlers never answer 401 to a request that       *)
(* passed the guard.                                                       *)
(***************************************************************************)
C31_GuardSetsReqUser ==
  req.route \in UserRoutes /\ resp.next =>
    /\ resp.reqUser # 0
    /\ resp.status # 401

(***************************************************************************)
(* C32: when POST /auth/logout answers success the session record is       *)
(* already destroyed: the store holds no record of the caller's session    *)
(* and no destroy is pending (so a failed destroy is not answered as a     *)
(* success), and no later request with the cookie of that session is       *)
(* authenticated by it.                                                    *)
(***************************************************************************)
C32_DestroyedBeforeLogoutAnswer ==
  /\ (req.route = "POST /auth/logout" /\ resp.status = 200) =>
       /\ Stored(req) = {}
       /\ req.cookies.sid \notin destroying
  /\ (/\ req.route \in ProtectedRoutes
      /\ OnlySessionCookie(req)
      /\ req.cookies.sid \in ended)
     => ~Authenticated(resp)

\* the refresh tokens of a response, in its body and in its cookie
RefreshTokensOf(out) == {out.refresh, out.cookieToken} \ {NoToken}

(***************************************************************************)
(* C33: the tokens a refresh mints carry the userId and email of the       *)
(* presented refresh token, and their lifetimes start at the refresh: the  *)
(* access token expires one access lifetime and the refresh token one      *)
(* refresh lifetime after the call, whatever iat and exp the presented     *)
(* token has.                                                              *)
(***************************************************************************)
C33_RefreshMintsFromNow ==
  req.route \in RefreshRoutes /\ resp.status = 200 =>
    /\ RefreshTokensOf(resp) # {}
    /\ \A t \in RefreshTokensOf(resp) \cup {resp.access} :
         /\ t.form = "jwt"
         /\ t.userId = resp.presented.userId
         /\ t.email = resp.presented.email
         /\ t.iat = now
    /\ resp.access.exp = now + AccessTtl
    /\ \A t \in RefreshTokensOf(resp) : t.exp = now + RefreshTtl

\* a refresh token minted earlier was presented, and the new refresh token
\* outlives it
C33_Witness ==
  /\ req.route \in RefreshRoutes
  /\ resp.status = 200
  /\ resp.presented.iat < now
  /\ \A t \in RefreshTokensOf(resp) : t.exp > resp.presented.exp
  /\ RefreshTokensOf(resp) # {}

C35_ProfileByTokenUserId ==
  (/\ req.route \in ProfileRoutes
   /\ req.sessUser = NoUser
   /\ req.authz # NoAuthz
   /\ req.authz.scheme = "Bearer"
   /\ verifyAccessToken(req.authz.tok, now).ok
   /\ resp.status = 200)
  => /\ resp.userId = req.authz.tok.userId
     /\ \A u \in resp.body : u.id = req.authz.tok.userId

(***************************************************************************)
(* C36: authGuard and profile resolve the same identity from the same      *)
(* Authorization header: a request to GET /auth/profile without a session  *)
(* that authGuard has accepted on its Bearer token is not answered 401 by  *)
(* profile, whose token is the one the guard has verified.                 *)
(***************************************************************************)
C36_GuardAndProfileAgree ==
  (/\ req.route = "GET /auth/profile"
   /\ req.sessUser = NoUser
   /\ resp.next)
  => /\ resp.status # 401
     /\ ProfileToken(req.authz) = req.authz.tok

\* the answer carries no token, sets no cookie and touches no session
CarriesNothing(out) ==
  /\ out.access = NoToken /\ out.refresh = NoToken /\ out.cookieToken = NoToken
  /\ out.header = NoToken
  /\ out.setCookie = "none"
  /\ ~out.sessionSet /\ ~out.sessionSaved
  /\ out.body = {}

(***************************************************************************)
(* C37: a login that fails on its credentials changes nothing, on both     *)
(* login endpoints: no user is attached to a session, the session store    *)
(* and the user store stay as they are, no cookie is set and no token is   *)
(* in the response, so the client's cookies and tokens stay as they are.   *)
(***************************************************************************)
C37_FailedLoginChangesNothing ==
  [][ (req' # req /\ req'.route \in LoginRoutes /\ resp'.status = 401) =>
        /\ CarriesNothing(resp')
        /\ sessions' = sessions
        /\ nextSid' = nextSid
        /\ users' = users
        /\ jar' = jar
        /\ held' = held ]_vars

\* a login with a wrong password was refused while the store held the
\* session of an earlier login and the client its cookies
C37_Witness ==
  /\ req.route \in LoginRoutes
  /\ resp.status = 401
  /\ resp.compares = 1
  /\ sessions # {}
  /\ jar # EmptyJar

=============================================================================
